---- MODULE Spec2Model ----
(***************************************************************************)
(* Deployment orchestration of nexus-prediction-market-V2.                  *)
(*                                                                         *)
(* Two queue processors are modelled:                                      *)
(*   - DeploymentQueueProcessor (server/routers/phaseABCD.ts), driven by   *)
(*     startDeploymentQueueCron, deploying through                         *)
(*     BlockchainDeploymentService (server/services/blockchainDeployment); *)
(*   - MarketResolutionService.processDeploymentQueue over the             *)
(*     contractDeployQueue table.                                          *)
(* JavaScript runs one callback at a time: every action below is the code  *)
(* between two awaits of one invocation.                                   *)
(***************************************************************************)
EXTENDS Integers, Sequences, FiniteSets, TLC

\* ---------------------------------------------------------------- bounds
NumJobs == 2
NumTriggers == 2
MaxFaults == 1
MaxRetriesBound == 1
AlertCap == 2
MaxRetriesCfg == 5
MaxAlerts == 2
MaxTicks == 3
MaxGasPrice == 50
MaxWhitelist == 3
NumCallers == 2
MaxMarkets == 3

\* failed deployment attempts followed per job
MaxFailures == MaxRetriesBound + 1

\* ------------------------------------------------------ program constants
DefaultBatchSize == 5
QueueMaxRetries == 3
PendingLimit == 10
FailedLimit == 5
TimeoutSeconds == 2
ConfirmationBlocks == 2
DeduplicationWindow == 60000
DefaultGasLimit == 300000
DefaultMaxGasPriceGwei == 500
DefaultMinGasPriceGwei == 1
DefaultPriceMultiplier == [num |-> 12, den |-> 10]
DefaultLimitMultiplier == [num |-> 13, den |-> 10]

Jobs == 1..NumJobs
Triggers == 1..NumTriggers
NoJob == 0

VARIABLES
    service,        \* which of the two queue processors runs the queue
    isProcessing,   \* DeploymentQueueProcessor.isProcessing
    batchSize,      \* DeploymentQueueProcessor.batchSize
    queue,          \* the job store behind getQueueItems / updateQueueItemStatus
    enqueued,       \* job ids in creation order
    liveRefs,       \* TRUE: the store hands out its own objects; FALSE: copies
    pc,             \* position of each processQueue invocation
    phase,          \* "pending" or "failed": which loop of processQueue runs
    items,          \* what is left of the list an invocation iterates
    idx,            \* index of the item in hand
    elapsed,        \* Date.now() - startTime of waitForConfirmation, seconds
    nearMiss,       \* every receipt polled so far had ConfirmationBlocks - 1
    receipt,        \* the receipt waitForConfirmation returned to the deploy call
    failures,       \* failed deployment attempts, per job
    alerts,         \* the alerts and owner notifications created
    timedOut,       \* jobs whose confirmation wait timed out in this invocation
    skipped,        \* a processQueue invocation hit the guard during this batch
    faults,         \* store calls that threw
    audit,          \* the last call of logAudit: its event, and whether the row was written
    retryConfig,    \* BlockchainDeploymentService.config: maxRetries, retryDelayMs
    retryPc,        \* position of the retryDeployment call
    retryAttempt,   \* retryDeployment: attempt
    lastError,      \* retryDeployment: lastError (its message)
    retryTrace,     \* the deployFn calls and sleeps retryDeployment made, in order
    retryResult,    \* what retryDeployment returned or threw
    svcAlerts,      \* AlertService.alerts
    notificationConfig, \* AlertService.notificationConfig: channel -> enabled
    rules,          \* AlertService.rules, in the order of their insertion
    lastAlertTime,  \* AlertService.lastAlertTime: deduplication key -> time
    now,            \* Date.now(), milliseconds
    lastTrigger,    \* what the last triggerAlert call did
    lastDispatch,   \* when an alert of each (source, title) was last dispatched
    gasManager,     \* the GasManager: its config, and the call in hand (its position
                    \* and what it has awaited so far)
    db,             \* the tables markets and contractDeployQueue, and the
                    \* createMarketAndQueue calls in flight
    oracleConfig    \* DeploymentValidator.oracleConfig

vars == <<service, isProcessing, batchSize, queue, enqueued, liveRefs, pc, phase,
          items, idx, elapsed, nearMiss, receipt, failures, alerts, skipped, timedOut, faults,
          audit, retryConfig, retryPc, retryAttempt, lastError, retryTrace, retryResult,
          svcAlerts, notificationConfig, rules, lastAlertTime, now, lastTrigger,
          lastDispatch, gasManager, db, oracleConfig>>

\* The queue processors, retryDeployment and the AlertService share no state:
\* each is run by a specification of its own, in which the other two are not
\* instantiated and their variables hold Unused.
qvars == <<service, isProcessing, batchSize, queue, enqueued, liveRefs, pc, phase,
           items, idx, elapsed, nearMiss, receipt, failures, alerts, skipped, timedOut, faults,
           audit>>
rvars == <<retryConfig, retryPc, retryAttempt, lastError, retryTrace, retryResult>>
avars == <<svcAlerts, notificationConfig, rules, lastAlertTime, now, lastTrigger,
           lastDispatch>>
\* The GasManager, the creation of markets and the DeploymentValidator are run
\* by specifications of their own as well.
evars == <<gasManager, db, oracleConfig>>

\* ------------------------------------------------------------ parameters
\* endTime is kept relative to Date.now() / 1000 at validation time.
BinaryMarketParams ==
    { [title |-> "t", description |-> "d", endTime |-> 1, oracleAddress |-> "0xA",
       initialLiquidity |-> 1],
      [title |-> "t", description |-> "d", endTime |-> -1, oracleAddress |-> "0xA",
       initialLiquidity |-> 1] }

CopyTradingVaultParams ==
    { [leader |-> "0xA", name |-> "n", performanceFee |-> 20, managementFee |-> 2] }

\* "0xA" and "0xB" stand for addresses in checksum case, "0xa" and "0xb" for
\* the same addresses in lower case; ethers.isAddress accepts both forms.
toLowerCase(a) ==
    CASE a = "0xA" -> "0xa"
      [] a = "0xB" -> "0xb"
      [] OTHER -> a

isAddress(a) == toLowerCase(a) \in {"0xa", "0xb"}

validateBinaryMarketParams(p) ==
    /\ p.title # ""
    /\ p.description # ""
    /\ ~(p.endTime <= 0)
    /\ isAddress(p.oracleAddress)
    /\ ~(p.initialLiquidity <= 0)

validateCopyTradingVaultParams(p) ==
    /\ isAddress(p.leader)
    /\ p.name # ""
    /\ ~(p.performanceFee < 0 \/ p.performanceFee > 100)
    /\ ~(p.managementFee < 0 \/ p.managementFee > 100)

validateParams(type, p) ==
    IF type = "BinaryMarket" THEN validateBinaryMarketParams(p)
                             ELSE validateCopyTradingVaultParams(p)

\* DeploymentValidator (deploymentValidator.ts).  No code of the deployment
\* service or of the queue processors constructs or calls it.
OracleWhitelist == <<"0xA">>

\* this.oracleConfig.whitelist.some((whitelistedAddress) =>
\*    whitelistedAddress.toLowerCase() === address.toLowerCase())
isWhitelisted(whitelist, address) ==
    \E i \in DOMAIN whitelist : toLowerCase(whitelist[i]) = toLowerCase(address)

validateOracleAddress(address) ==
    /\ isAddress(address)
    /\ isWhitelisted(oracleConfig.whitelist, address)

validateDeploymentParams(p) ==
    /\ p.title # ""
    /\ p.description # ""
    /\ ~(p.endTime <= 0)
    /\ p.oracleAddress # ""
    /\ validateOracleAddress(p.oracleAddress)
    /\ ~(p.initialLiquidity <= 0)

\* the parameters a client may put in a job: each field with a value the
\* validation accepts and values it is to reject
MarketParamsTried ==
    [title : {"", "t"}, description : {"", "d"}, endTime : {-1, 0, 1},
     oracleAddress : {"0xA", "0xB", "zz"}, initialLiquidity : {0, 1}]

VaultParamsTried ==
    [leader : {"0xA", "zz"}, name : {"", "n"}, performanceFee : {20, 60},
     managementFee : {2, 50}]

\* ------------------------------------------------------------- GasManager
\* A JavaScript number is an IEEE 754 double: a 53-bit significand and a
\* binary exponent.  Sequences of bits, least significant first, stand for
\* the integers that do not fit the integers of the model.
SignificandBits == 53

RECURSIVE BitsOf(_)
BitsOf(n) == IF n = 0 THEN << >> ELSE <<n % 2>> \o BitsOf(n \div 2)

RECURSIVE ValueOf(_)
ValueOf(bits) == IF bits = << >> THEN 0 ELSE Head(bits) + 2 * ValueOf(Tail(bits))

RECURSIVE Increment(_)
Increment(bits) ==
    IF bits = << >> THEN <<1>>
    ELSE IF Head(bits) = 0 THEN <<1>> \o Tail(bits)
    ELSE <<0>> \o Increment(Tail(bits))

\* round to nearest, ties to even, to SignificandBits significant bits
RoundToDouble(bits) ==
    IF Len(bits) <= SignificandBits THEN bits
    ELSE LET k == Len(bits) - SignificandBits
             kept == SubSeq(bits, k + 1, Len(bits))
             half == bits[k] = 1
             sticky == \E i \in 1..(k - 1) : bits[i] = 1
             up == half /\ (sticky \/ kept[1] = 1)
         IN [i \in 1..k |-> 0] \o (IF up THEN Increment(kept) ELSE kept)

\* num / den = x * 2^e with 1 <= x < 2
RECURSIVE Normalise(_, _, _)
Normalise(num, den, e) ==
    IF num >= 2 * den THEN Normalise(num, 2 * den, e + 1)
    ELSE IF num < den THEN Normalise(2 * num, den, e - 1)
    ELSE [num |-> num, den |-> den, e |-> e]

\* the next n bits of the quotient of r / den (r < den), and what remains
RECURSIVE DivBits(_, _, _, _)
DivBits(r, den, acc, n) ==
    IF n = 0 THEN [bits |-> acc, rem |-> r]
    ELSE LET b == IF 2 * r >= den THEN 1 ELSE 0
         IN DivBits(2 * r - b * den, den, <<b>> \o acc, n - 1)

\* The double a decimal literal num / den (num > 0) is read as: its
\* significand, with value significand * 2^(e - 52).
DoubleOf(num, den) ==
    LET n == Normalise(num, den, 0)
        q == DivBits(n.num - n.den, n.den, <<1>>, SignificandBits - 1)
        up == 2 * q.rem > n.den \/ (2 * q.rem = n.den /\ q.bits[1] = 1)
    IN [significand |-> IF up THEN Increment(q.bits) ELSE q.bits, e |-> n.e]

RECURSIVE TimesBits(_, _, _)
TimesBits(p, bits, carry) ==
    IF bits = << >> THEN BitsOf(carry)
    ELSE LET t == p * Head(bits) + carry
         IN <<t % 2>> \o TimesBits(p, Tail(bits), t \div 2)

\* Math.ceil of the double bits * 2^(-shift)
CeilOf(bits, shift) ==
    LET whole == IF shift >= Len(bits) THEN 0
                 ELSE ValueOf(SubSeq(bits, shift + 1, Len(bits)))
        fraction == \E i \in 1..shift : i <= Len(bits) /\ bits[i] = 1
    IN whole + (IF fraction THEN 1 ELSE 0)

\* A multiplier is a decimal literal num / den; 0 / 1 is also what stands
\* for a multiplier the configuration leaves out.
Multiplier(num, den) == [num |-> num, den |-> den]

applyMultiplierFloor(value, multiplier) ==
    IF value = 0 \/ multiplier.num = 0 THEN 0
    ELSE LET m == DoubleOf(multiplier.num, multiplier.den)
             product == RoundToDouble(TimesBits(value, m.significand, 0))
             shift == SignificandBits - 1 - m.e
         IN IF shift >= Len(product) THEN 0
            ELSE ValueOf(SubSeq(product, shift + 1, Len(product)))

\* private applyMultiplier(value: bigint, multiplier: number): bigint {
\*   const multiplied = Number(value) * multiplier;
\*   return BigInt(Math.ceil(multiplied)); }
\* Number(value) is exact for the values of the model (below 2^53); the
\* product of two doubles is the exact product rounded to a double.
applyMultiplier(value, multiplier) ==
    IF value = 0 \/ multiplier.num = 0 THEN 0
    ELSE LET m == DoubleOf(multiplier.num, multiplier.den)
             product == RoundToDouble(TimesBits(value, m.significand, 0))
         IN CeilOf(product, SignificandBits - 1 - m.e)

\* Prices in Gwei are counted in halves of a Gwei.
HalfGwei(n) == 2 * n

\* constructor: this.config = { priceMultiplier: config.priceMultiplier || 1.2, ... }
\* (ethPriceUSD, which only totalCostInUSD reads, is left out)
GasManager(config) ==
    [priceMultiplier |-> IF config.priceMultiplier.num = 0 THEN DefaultPriceMultiplier
                         ELSE config.priceMultiplier,
     limitMultiplier |-> IF config.limitMultiplier.num = 0 THEN DefaultLimitMultiplier
                         ELSE config.limitMultiplier,
     maxGasPriceGwei |-> IF config.maxGasPriceGwei = 0 THEN HalfGwei(DefaultMaxGasPriceGwei)
                         ELSE config.maxGasPriceGwei,
     minGasPriceGwei |-> IF config.minGasPriceGwei = 0 THEN HalfGwei(DefaultMinGasPriceGwei)
                         ELSE config.minGasPriceGwei]

\* new GasManager(provider)
DefaultGasConfig ==
    GasManager([priceMultiplier |-> Multiplier(0, 1), limitMultiplier |-> Multiplier(0, 1),
                maxGasPriceGwei |-> 0, minGasPriceGwei |-> 0])

\* what a call of the provider gives: a value, null (a field of the fee data
\* only), or an exception
Null == -1
Fails == -2

estimateTransactionGasMultiplied(config, gasEstimate) ==
    IF gasEstimate = Fails THEN applyMultiplier(DefaultGasLimit, config.limitMultiplier)
    ELSE applyMultiplier(gasEstimate, config.limitMultiplier)

\* try { return applyMultiplier(await provider.estimateGas(tx), limitMultiplier) }
\* catch { return BigInt(300000) }
estimateTransactionGas(config, gasEstimate) ==
    IF gasEstimate = Fails THEN DefaultGasLimit
    ELSE applyMultiplier(gasEstimate, config.limitMultiplier)

Thrown == [thrown |-> TRUE]
NoFeeData == [maxFeePerGas |-> Null, maxPriorityFeePerGas |-> Null]

getEIP1559FeesLenient(config, feeData) ==
    IF feeData.maxFeePerGas \in {Null, 0}
    THEN Thrown
    ELSE [thrown |-> FALSE,
          maxFeePerGas |-> applyMultiplier(feeData.maxFeePerGas, config.priceMultiplier),
          maxPriorityFeePerGas |->
             IF feeData.maxPriorityFeePerGas = Null THEN 0
             ELSE applyMultiplier(feeData.maxPriorityFeePerGas, config.priceMultiplier)]

\* if (!feeData.maxFeePerGas || !feeData.maxPriorityFeePerGas)
\*   throw new Error('Failed to get EIP-1559 fees')      (0n is falsy as null is)
getEIP1559Fees(config, feeData) ==
    IF feeData.maxFeePerGas \in {Null, 0} \/ feeData.maxPriorityFeePerGas \in {Null, 0}
    THEN Thrown
    ELSE [thrown |-> FALSE,
          maxFeePerGas |-> applyMultiplier(feeData.maxFeePerGas, config.priceMultiplier),
          maxPriorityFeePerGas |->
             applyMultiplier(feeData.maxPriorityFeePerGas, config.priceMultiplier)]

\* return this.applyMultiplier(await provider.getGasPrice(), priceMultiplier)
getGasPrice(config, gasPrice) == applyMultiplier(gasPrice, config.priceMultiplier)

isValidGasPriceExclusive(config, gasPrice) ==
    gasPrice > config.minGasPriceGwei /\ gasPrice < config.maxGasPriceGwei

\* return gasPrice >= minGasPriceGwei && gasPrice <= maxGasPriceGwei
isValidGasPrice(config, gasPrice) ==
    gasPrice >= config.minGasPriceGwei /\ gasPrice <= config.maxGasPriceGwei

\* the fee data a provider may answer with
FeeDataTried == [maxFeePerGas : {Null, 0, 30}, maxPriorityFeePerGas : {Null, 2}]

\* ------------------------------------------------------------- job store
ValidParams == CHOOSE p \in BinaryMarketParams : p.endTime = 1

Absent == [status |-> "none", type |-> "BinaryMarket", params |-> ValidParams,
           retryCount |-> 0, maxRetries |-> 0, error |-> "", deployedAddress |-> ""]

RECURSIVE SelectStatus(_, _, _)
SelectStatus(q, ids, status) ==
    IF ids = << >> THEN << >>
    ELSE IF q[Head(ids)].status = status
         THEN <<Head(ids)>> \o SelectStatus(q, Tail(ids), status)
         ELSE SelectStatus(q, Tail(ids), status)

Take(s, n) == IF Len(s) <= n THEN s ELSE SubSeq(s, 1, n)

\* the item objects returned for a status, oldest first, at most limit
getQueueItems(q, status, limit) ==
    LET ids == Take(SelectStatus(q, enqueued, status), limit)
    IN [i \in 1..Len(ids) |->
          [id |-> ids[i], retryCount |-> q[ids[i]].retryCount,
           maxRetries |-> q[ids[i]].maxRetries, error |-> q[ids[i]].error]]

updateQueueItemStatus(q, itemId, status) ==
    [q EXCEPT ![itemId].status = status]

\* a write to a field of a fetched item reaches the store only when the
\* store handed out its own object.  item.error, which no code of the
\* processor reads, is followed on the fetched item only.
WriteRetryCount(q, itemId, n) ==
    IF liveRefs THEN [q EXCEPT ![itemId].retryCount = n] ELSE q

\* --------------------------------------------------------------- alerts
\* The alerts created so far, counted per item and level (every title used
\* by the queue goes with one level); a count of AlertCap stands for
\* AlertCap or more.
AlertLevels == {"INFO", "WARNING", "CRITICAL", "OWNER"}
AlertKeys == (Jobs \cup {NoJob}) \X AlertLevels

createAlert(al, title, level, source, item) ==
    [al EXCEPT ![<<item, level>>] = IF @ < AlertCap THEN @ + 1 ELSE @]

CurItem(t) == items[t][idx[t]]
CurId(t) == CurItem(t).id



\* a field of a fetched item, as the running code reads it
ItemRetryCount(q, it) == IF liveRefs THEN q[it.id].retryCount ELSE it.retryCount

\* a receipt of the provider: confirmations = -1 stands for a null receipt;
\* status "reverted" is the receipt of a transaction that reverted on chain
ReceiptStatuses == {"success", "reverted"}

NoReceipt == [confirmations |-> -1, status |-> "success"]

\* ----------------------------------------------- DeploymentQueueProcessor
processQueueGuardNever == FALSE

\* if (this.isProcessing) { ...; return; }
processQueueGuard == isProcessing

CanRetryInclusive(q, it) == ItemRetryCount(q, it) <= it.maxRetries

\* if (item.retryCount < item.maxRetries)
CanRetry(q, it) == ItemRetryCount(q, it) < it.maxRetries

\* The synchronous continuation of processQueue once the item in hand is
\* done: the next item of the loop, the fetch of the failed items, or the
\* end of the batch.  For an item of the failed loop it runs the head of
\* retryQueueItem (item.retryCount++) or of markQueueItemFailed.
LoopNext(q, its, i, ph) ==
    IF i < Len(its)
    THEN LET it == its[i + 1] IN
         IF ph = "pending"
         THEN [pc |-> "markProcessing", items |-> its, idx |-> i + 1, queue |-> q]
         ELSE IF CanRetry(q, it)
         THEN [pc |-> "markProcessing",
               items |-> [its EXCEPT ![i + 1].retryCount = ItemRetryCount(q, it) + 1],
               idx |-> i + 1,
               queue |-> WriteRetryCount(q, it.id, ItemRetryCount(q, it) + 1)]
         ELSE [pc |-> "markExhausted",
               items |-> [its EXCEPT ![i + 1].error = "Max retries exceeded"],
               idx |-> i + 1,
               queue |-> q]
    ELSE IF ph = "pending"
         THEN [pc |-> "fetchFailed", items |-> its, idx |-> i, queue |-> q]
         ELSE [pc |-> "idle", items |-> << >>, idx |-> 0, queue |-> q]

FinallyKeepsFlag(t) ==
    /\ isProcessing' = isProcessing
    /\ skipped' = FALSE
    /\ timedOut' = [timedOut EXCEPT ![t] = {}]
    /\ pc' = [pc EXCEPT ![t] = "idle"]
    /\ phase' = [phase EXCEPT ![t] = "pending"]
    /\ items' = [items EXCEPT ![t] = << >>]
    /\ idx' = [idx EXCEPT ![t] = 0]

\* finally { this.isProcessing = false }
Finally(t) ==
    /\ isProcessing' = FALSE
    /\ skipped' = FALSE
    /\ timedOut' = [timedOut EXCEPT ![t] = {}]
    /\ pc' = [pc EXCEPT ![t] = "idle"]
    /\ phase' = [phase EXCEPT ![t] = "pending"]
    /\ items' = [items EXCEPT ![t] = << >>]
    /\ idx' = [idx EXCEPT ![t] = 0]

Continue(t, q, its, i, ph, al) ==
    LET n == LoopNext(q, its, i, ph) IN
    /\ alerts' = al
    /\ elapsed' = [elapsed EXCEPT ![t] = 0]
    /\ nearMiss' = [nearMiss EXCEPT ![t] = FALSE]
    /\ receipt' = [receipt EXCEPT ![t] = NoReceipt]
    /\ queue' = n.queue
    /\ IF n.pc = "idle"
       THEN Finally(t)
       ELSE /\ items' = [items EXCEPT ![t] = n.items]
            /\ idx' = [idx EXCEPT ![t] = n.idx]
            /\ pc' = [pc EXCEPT ![t] = n.pc]
            /\ phase' = [phase EXCEPT ![t] = ph]
            /\ UNCHANGED <<isProcessing, skipped, timedOut>>

BatchCatchSilent(t) ==
    /\ faults < MaxFaults
    /\ faults' = faults + 1
    /\ alerts' = alerts
    /\ elapsed' = [elapsed EXCEPT ![t] = 0]
    /\ nearMiss' = [nearMiss EXCEPT ![t] = FALSE]
    /\ receipt' = [receipt EXCEPT ![t] = NoReceipt]
    /\ Finally(t)
    /\ UNCHANGED queue

\* a store call throws at batch level:
\* catch (error) { createAlert(..., CRITICAL, 'deployment-queue') } finally
BatchCatch(t) ==
    /\ faults < MaxFaults
    /\ faults' = faults + 1
    /\ alerts' = createAlert(alerts, "Deployment Queue Processing Error", "CRITICAL",
                             "deployment-queue", NoJob)
    /\ elapsed' = [elapsed EXCEPT ![t] = 0]
    /\ nearMiss' = [nearMiss EXCEPT ![t] = FALSE]
    /\ receipt' = [receipt EXCEPT ![t] = NoReceipt]
    /\ Finally(t)
    /\ UNCHANGED queue

\* the catch block of processQueueItem up to its await:
\* markQueueItemFailed sets item.error and awaits the status update
ItemCatch(t, q, msg, attempt) ==
    /\ attempt => failures[CurId(t)] < MaxFailures
    /\ pc' = [pc EXCEPT ![t] = "markFailed"]
    /\ items' = [items EXCEPT ![t][idx[t]].error = msg]
    /\ queue' = q
    /\ failures' = IF attempt THEN [failures EXCEPT ![CurId(t)] = failures[CurId(t)] + 1]
                   ELSE failures

\* a store call of processQueueItem throws
StoreThrows(t) ==
    /\ faults < MaxFaults
    /\ faults' = faults + 1
    /\ ItemCatch(t, queue, "Store error", FALSE)

\* processQueue, from its entry to the first await
processQueue(t) ==
    /\ service = "DeploymentQueueProcessor"
    /\ pc[t] = "idle"
    /\ \A u \in Triggers : u < t => pc[u] # "idle"
    /\ IF processQueueGuard
       THEN /\ skipped' = TRUE
            /\ UNCHANGED timedOut
            /\ UNCHANGED <<isProcessing, pc>>
       ELSE /\ isProcessing' = TRUE
            /\ pc' = [pc EXCEPT ![t] = "fetchPending"]
            /\ UNCHANGED <<skipped, timedOut>>
    /\ UNCHANGED <<batchSize, queue, enqueued, liveRefs, service, audit, phase, items, idx,
                   elapsed, nearMiss, receipt, failures, alerts, faults>>
    /\ UNCHANGED <<rvars, avars, evars>>

\* const items = await this.getQueueItems('pending', this.batchSize)
FetchPending(t) ==
    /\ pc[t] = "fetchPending"
    /\ \/ BatchCatch(t)
       \/ LET its == getQueueItems(queue, "pending", batchSize) IN
          /\ IF Len(its) = 0
             THEN Finally(t)
             ELSE /\ pc' = [pc EXCEPT ![t] = "markProcessing"]
                  /\ items' = [items EXCEPT ![t] = its]
                  /\ idx' = [idx EXCEPT ![t] = 1]
                  /\ UNCHANGED <<isProcessing, phase, skipped, timedOut>>
          /\ UNCHANGED <<queue, alerts, faults, elapsed, nearMiss, receipt>>
    /\ UNCHANGED <<batchSize, enqueued, liveRefs, service, audit, failures>>
    /\ UNCHANGED <<rvars, avars, evars>>

\* processQueueItem: await updateQueueItemStatus(item.id, 'processing'), then
\* the deploy call up to its first await (validation is synchronous)
MarkProcessing(t) ==
    /\ pc[t] = "markProcessing"
    /\ \/ StoreThrows(t)
       \/ LET q == updateQueueItemStatus(queue, CurId(t), "processing") IN
          /\ IF validateParams(q[CurId(t)].type, q[CurId(t)].params)
             THEN /\ queue' = q
                  /\ pc' = [pc EXCEPT ![t] = "estimate"]
                  /\ UNCHANGED <<items, failures>>
             ELSE ItemCatch(t, q, "Invalid params", TRUE)
          /\ UNCHANGED faults
    /\ UNCHANGED <<isProcessing, batchSize, enqueued, liveRefs, service, audit, phase, idx, elapsed,
                   nearMiss, receipt, alerts, skipped, timedOut>>
    /\ UNCHANGED <<rvars, avars, evars>>

\* const gasEstimate = await this.config.gasManager.estimateGas(...)
Estimate(t) ==
    /\ pc[t] = "estimate"
    /\ \/ ItemCatch(t, queue, "Failed to get EIP-1559 fees", TRUE)
       \/ /\ pc' = [pc EXCEPT ![t] = "submit"]
          /\ UNCHANGED <<queue, items, failures>>
    /\ UNCHANGED <<isProcessing, batchSize, enqueued, liveRefs, service, audit, phase, idx, elapsed,
                   nearMiss, receipt, alerts, skipped, timedOut, faults>>
    /\ UNCHANGED <<rvars, avars, evars>>

\* const contract = await factory.deploy(...); then waitForConfirmation up
\* to its first getTransactionReceipt
Submit(t) ==
    /\ pc[t] = "submit"
    /\ \/ /\ ItemCatch(t, queue, "Submission failed", TRUE)
          /\ UNCHANGED <<elapsed, nearMiss, receipt>>
       \/ /\ elapsed' = [elapsed EXCEPT ![t] = 0]
          /\ nearMiss' = [nearMiss EXCEPT ![t] = TRUE]
          /\ UNCHANGED receipt
          /\ pc' = [pc EXCEPT ![t] = "poll"]
          /\ UNCHANGED <<queue, items, failures>>
    /\ UNCHANGED <<isProcessing, batchSize, enqueued, liveRefs, service, audit, phase, idx,
                   alerts, skipped, timedOut, faults>>
    /\ UNCHANGED <<rvars, avars, evars>>

ReceiptQualifiesPresent(c) == c # -1

\* receipt && receipt.confirmations >= this.config.confirmationBlocks
ReceiptQualifies(c) == c # -1 /\ c >= ConfirmationBlocks

\* const receipt = await this.provider.getTransactionReceipt(tx.hash)
Poll(t) ==
    /\ pc[t] = "poll"
    /\ \E c \in -1..ConfirmationBlocks :
          IF ReceiptQualifies(c)
          THEN /\ pc' = [pc EXCEPT ![t] = "save"]
               /\ elapsed' = [elapsed EXCEPT ![t] = 0]
               /\ nearMiss' = [nearMiss EXCEPT ![t] = FALSE]
               /\ \E st \in ReceiptStatuses :
                     receipt' = [receipt EXCEPT ![t] = [confirmations |-> c, status |-> st]]
          ELSE /\ pc' = [pc EXCEPT ![t] = "sleep"]
               /\ nearMiss' = [nearMiss EXCEPT ![t] = nearMiss[t] /\ c = ConfirmationBlocks - 1]
               /\ UNCHANGED <<elapsed, receipt>>
    /\ UNCHANGED <<isProcessing, batchSize, queue, enqueued, liveRefs, service, audit, phase, items,
                   idx, failures, alerts, skipped, timedOut, faults>>
    /\ UNCHANGED <<rvars, avars, evars>>

\* while (Date.now() - startTime < timeout)
WaitContinues(e) == e < TimeoutSeconds

\* await this.sleep(1000), then the loop condition
Sleep(t) ==
    /\ pc[t] = "sleep"
    /\ elapsed' = [elapsed EXCEPT ![t] = elapsed[t] + 1]
    /\ IF WaitContinues(elapsed[t] + 1)
       THEN /\ pc' = [pc EXCEPT ![t] = "poll"]
            /\ UNCHANGED <<queue, items, failures, timedOut>>
       ELSE /\ ItemCatch(t, queue, "Deployment timeout", TRUE)
            /\ timedOut' = [timedOut EXCEPT ![t] = @ \cup {CurId(t)}]
    /\ UNCHANGED <<isProcessing, batchSize, enqueued, liveRefs, service, audit, phase, idx, nearMiss,
                   receipt, alerts, skipped, faults>>
    /\ UNCHANGED <<rvars, avars, evars>>

\* await this.saveDeploymentResult(item, result)
Save(t) ==
    /\ pc[t] = "save"
    /\ \/ StoreThrows(t)
       \/ /\ pc' = [pc EXCEPT ![t] = "markCompleted"]
          /\ UNCHANGED <<queue, items, failures, faults>>
    /\ UNCHANGED <<isProcessing, batchSize, enqueued, liveRefs, service, audit, phase, idx, elapsed,
                   nearMiss, receipt, alerts, skipped, timedOut>>
    /\ UNCHANGED <<rvars, avars, evars>>

\* await this.updateQueueItemStatus(item.id, 'completed'); createAlert(INFO)
MarkCompleted(t) ==
    /\ pc[t] = "markCompleted"
    /\ \/ /\ StoreThrows(t)
          /\ UNCHANGED <<isProcessing, phase, idx, alerts, elapsed, nearMiss, receipt, skipped, timedOut>>
       \/ /\ Continue(t, updateQueueItemStatus(queue, CurId(t), "completed"),
                      Tail(items[t]), 0, phase[t],
                      createAlert(alerts, "Deployment Successful", "INFO",
                                  "deployment-queue", CurId(t)))
          /\ UNCHANGED <<failures, faults>>
    /\ UNCHANGED <<batchSize, enqueued, liveRefs, service, audit>>
    /\ UNCHANGED <<rvars, avars, evars>>

MarkFailedKeepsStatus(t) ==
    /\ pc[t] = "markFailed"
    /\ \/ BatchCatch(t)
       \/ /\ Continue(t, queue, Tail(items[t]), 0, phase[t],
                      createAlert(alerts, "Deployment Failed", "WARNING",
                                  "deployment-queue", CurId(t)))
          /\ UNCHANGED faults
    /\ UNCHANGED <<batchSize, enqueued, liveRefs, service, audit, failures>>
    /\ UNCHANGED <<rvars, avars, evars>>

\* catch of processQueueItem: await this.markQueueItemFailed(item, message);
\* createAlert(WARNING)
MarkFailed(t) ==
    /\ pc[t] = "markFailed"
    /\ \/ BatchCatch(t)
       \/ /\ Continue(t, updateQueueItemStatus(queue, CurId(t), "failed"),
                      Tail(items[t]), 0, phase[t],
                      createAlert(alerts, "Deployment Failed", "WARNING",
                                  "deployment-queue", CurId(t)))
          /\ UNCHANGED faults
    /\ UNCHANGED <<batchSize, enqueued, liveRefs, service, audit, failures>>
    /\ UNCHANGED <<rvars, avars, evars>>

\* const failedItems = await this.getQueueItems('failed', this.batchSize)
FetchFailed(t) ==
    /\ pc[t] = "fetchFailed"
    /\ \/ BatchCatch(t)
       \/ /\ Continue(t, queue, getQueueItems(queue, "failed", batchSize), 0, "failed",
                      alerts)
          /\ UNCHANGED faults
    /\ UNCHANGED <<batchSize, enqueued, liveRefs, service, audit, failures>>
    /\ UNCHANGED <<rvars, avars, evars>>

\* failed loop: await this.markQueueItemFailed(item, 'Max retries exceeded')
MarkExhausted(t) ==
    /\ pc[t] = "markExhausted"
    /\ \/ BatchCatch(t)
       \/ /\ Continue(t, updateQueueItemStatus(queue, CurId(t), "failed"),
                      Tail(items[t]), 0, phase[t], alerts)
          /\ UNCHANGED faults
    /\ UNCHANGED <<batchSize, enqueued, liveRefs, service, audit, failures>>
    /\ UNCHANGED <<rvars, avars, evars>>

\* a job is created by the upstream request.  A job created while a batch
\* runs is seen by no fetch of that batch (it is pending after the one
\* fetch of pending items), so creation is taken between batches.
Enqueue(j, type, params, maxRetries) ==
    /\ service = "DeploymentQueueProcessor"
    /\ \A t \in Triggers : pc[t] = "idle"
    /\ \A k \in Jobs : queue[k].status # "none" => queue[k].maxRetries = maxRetries
    /\ queue[j].status = "none"
    /\ \A k \in Jobs : k < j => queue[k].status # "none"
    /\ queue' = [queue EXCEPT ![j] =
                   [status |-> "pending", type |-> type, params |-> params,
                    retryCount |-> 0, maxRetries |-> maxRetries, error |-> "",
                    deployedAddress |-> ""]]
    /\ enqueued' = Append(enqueued, j)
    /\ UNCHANGED <<isProcessing, batchSize, liveRefs, service, audit, pc, phase, items, idx,
                   elapsed, nearMiss, receipt, failures, alerts, skipped, timedOut, faults>>
    /\ UNCHANGED <<rvars, avars, evars>>

\* ------------------------------------------------ MarketResolutionService
\* Rows of contractDeployQueue are the entries of queue; a select returns
\* copies.  Every statement of processDeploymentItem and of
\* handleDeploymentFailure addresses one row by its id, so one row is
\* followed through the overlapping runs.  An await on another table (markets, the audit log, the owner
\* notification) is taken in one step with the queue update before it: no
\* other invocation reads what it writes.
\* The audit log is written by logAudit and read by no code of the queue
\* processors.  What logAudit did is followed in AuditSpec; under Spec it is
\* not followed (audit stays AuditUntracked).
AuditEventTypes == {"MARKET_CREATED", "DEPLOYMENT_SUCCESS", "DEPLOYMENT_FAILED"}
AuditUntracked == [eventType |-> "untracked", written |-> FALSE]
NoAudit == [eventType |-> "none", written |-> FALSE]

logAuditRaises(eventType, Returns, Raises) ==
    IF audit = AuditUntracked
    THEN UNCHANGED audit /\ Returns
    ELSE \/ audit' = [eventType |-> eventType, written |-> TRUE] /\ Returns
         \/ audit' = [eventType |-> eventType, written |-> FALSE] /\ Raises

\* logAudit: try { await db.insert(auditLogs).values({...}) }
\* catch (error) { console.error(...) }: the insert writes the row or
\* throws, and the caller continues after the call in either case (Returns);
\* Raises is what the caller would do with an exception of the call.
logAudit(eventType, Returns, Raises) ==
    IF audit = AuditUntracked
    THEN UNCHANGED audit /\ Returns
    ELSE \E written \in BOOLEAN :
            /\ audit' = [eventType |-> eventType, written |-> written]
            /\ Returns

mfix == <<service, isProcessing, batchSize, liveRefs, phase, elapsed, nearMiss, receipt,
          failures, skipped, timedOut, faults>>

\* createMarketAndQueue: db.insert(contractDeployQueue).values({... PENDING,
\* retryCount: 0, maxRetries: 3 ...}), then await logAudit('MARKET_CREATED')
\* (both rows are inserted by then: an exception of the call would reach the
\* client only)
createMarketAndQueue(j) ==
    /\ service = "MarketResolutionService"
    /\ enqueued = << >>
    /\ \A k \in Jobs : j <= k
    /\ queue' = [queue EXCEPT ![j] =
                   [status |-> "PENDING", type |-> "BinaryMarket", params |-> ValidParams,
                    retryCount |-> 0, maxRetries |-> QueueMaxRetries, error |-> "",
                    deployedAddress |-> ""]]
    /\ enqueued' = Append(enqueued, j)
    /\ logAudit("MARKET_CREATED", TRUE, TRUE)
    /\ UNCHANGED <<mfix, pc, items, idx, alerts>>
    /\ UNCHANGED <<rvars, avars, evars>>

\* the exception leaves processDeploymentQueue / retryFailedDeployments
MAbort(t) ==
    /\ pc' = [pc EXCEPT ![t] = "idle"]
    /\ items' = [items EXCEPT ![t] = << >>]
    /\ idx' = [idx EXCEPT ![t] = 0]

\* for (const item of pending): the next item, or the end of the run
MNext(t) ==
    IF idx[t] < Len(items[t])
    THEN /\ idx' = [idx EXCEPT ![t] = idx[t] + 1]
         /\ pc' = [pc EXCEPT ![t] = "mDeploying"]
         /\ UNCHANGED items
    ELSE MAbort(t)

\* catch (error) { await this.handleDeploymentFailure(item, error) }, up to
\* the first await of handleDeploymentFailure
MCatch(t) ==
    /\ pc' = [pc EXCEPT ![t] = "mFail"]
    /\ UNCHANGED <<idx, items>>

\* processDeploymentQueue up to the end of its select:
\* const pending = await db.select()...where(PENDING).limit(10)
processDeploymentQueue(t) ==
    /\ service = "MarketResolutionService"
    /\ pc[t] = "idle"
    /\ \A u \in Triggers : u < t => pc[u] # "idle"
    /\ LET its == getQueueItems(queue, "PENDING", PendingLimit) IN
       /\ Len(its) > 0
       /\ items' = [items EXCEPT ![t] = its]
       /\ idx' = [idx EXCEPT ![t] = 1]
       /\ pc' = [pc EXCEPT ![t] = "mDeploying"]
    /\ UNCHANGED <<mfix, queue, enqueued, alerts, audit>>
    /\ UNCHANGED <<rvars, avars, evars>>

\* processDeploymentItem: await db.update(...).set({ DEPLOYING }), then
\* await db.select().from(markets) (the market row was inserted together
\* with the queue row and is never deleted), then the call of deployContract
MarkDeploying(t) ==
    /\ pc[t] = "mDeploying"
    /\ \/ /\ MCatch(t)
          /\ UNCHANGED queue
       \/ /\ queue' = updateQueueItemStatus(queue, CurId(t), "DEPLOYING")
          /\ \/ MCatch(t)
             \/ /\ pc' = [pc EXCEPT ![t] = "mDeploy"]
                /\ UNCHANGED <<items, idx>>
    /\ UNCHANGED <<mfix, enqueued, alerts, audit>>
    /\ UNCHANGED <<rvars, avars, evars>>

\* const deploymentResult = await this.deployContract(item, market[0]), then
\* await db.update(...).set({ DEPLOYED, deployedAddress, ... }), then
\* await db.update(markets), then await logAudit('DEPLOYMENT_SUCCESS')
MarkDeployed(t) ==
    /\ pc[t] = "mDeploy"
    /\ \/ /\ MCatch(t)
          /\ UNCHANGED <<queue, audit>>
       \/ /\ queue' = [queue EXCEPT ![CurId(t)].status = "DEPLOYED",
                                    ![CurId(t)].deployedAddress = "0xC"]
          /\ \/ /\ MCatch(t)
                /\ UNCHANGED audit
             \/ logAudit("DEPLOYMENT_SUCCESS", MNext(t), MCatch(t))
    /\ UNCHANGED <<mfix, enqueued, alerts>>
    /\ UNCHANGED <<rvars, avars, evars>>

\* const newRetryCount = (item.retryCount || 0) + 1
newRetryCount(item) == item.retryCount + 1

\* if (newRetryCount >= item.maxRetries)
RetriesExhausted(item) == newRetryCount(item) >= item.maxRetries

\* handleDeploymentFailure: either branch; an exception of one of its
\* awaits leaves processDeploymentQueue
handleDeploymentFailure(t) ==
    /\ pc[t] = "mFail"
    /\ \/ /\ MAbort(t)
          /\ UNCHANGED <<queue, alerts, audit>>
       \/ IF RetriesExhausted(CurItem(t))
          THEN /\ queue' = [queue EXCEPT ![CurId(t)].status = "FAILED",
                                         ![CurId(t)].error = "DB error"]
               /\ \/ /\ MAbort(t)
                     /\ UNCHANGED <<alerts, audit>>
                  \/ /\ alerts' = createAlert(alerts, "Deployment Failed", "OWNER",
                                              "market-resolution", CurId(t))
                     /\ logAudit("DEPLOYMENT_FAILED", MNext(t), MAbort(t))
          ELSE /\ queue' = [queue EXCEPT ![CurId(t)].status = "PENDING",
                                         ![CurId(t)].retryCount = newRetryCount(CurItem(t)),
                                         ![CurId(t)].error = "DB error"]
               /\ MNext(t)
               /\ UNCHANGED <<alerts, audit>>
    /\ UNCHANGED <<mfix, enqueued>>
    /\ UNCHANGED <<rvars, avars, evars>>

\* retryFailedDeployments up to the end of its select:
\* const failed = await db.select()...where(FAILED).limit(5)
retryFailedDeployments(t) ==
    /\ service = "MarketResolutionService"
    /\ pc[t] = "idle"
    /\ \A u \in Triggers : u < t => pc[u] # "idle"
    /\ LET its == getQueueItems(queue, "FAILED", FailedLimit) IN
       /\ Len(its) > 0
       /\ items' = [items EXCEPT ![t] = its]
       /\ idx' = [idx EXCEPT ![t] = 1]
       /\ pc' = [pc EXCEPT ![t] = "rReset"]
    /\ UNCHANGED <<mfix, queue, enqueued, alerts, audit>>
    /\ UNCHANGED <<rvars, avars, evars>>

\* await db.update(...).set({ PENDING, retryCount: 0, lastError: null })
ResetFailed(t) ==
    /\ pc[t] = "rReset"
    /\ \/ /\ MAbort(t)
          /\ UNCHANGED queue
       \/ /\ queue' = [queue EXCEPT ![CurId(t)].status = "PENDING",
                                    ![CurId(t)].retryCount = 0,
                                    ![CurId(t)].error = ""]
          /\ IF idx[t] < Len(items[t])
             THEN /\ idx' = [idx EXCEPT ![t] = idx[t] + 1]
                  /\ UNCHANGED <<pc, items>>
             ELSE MAbort(t)
    /\ UNCHANGED <<mfix, enqueued, alerts, audit>>
    /\ UNCHANGED <<rvars, avars, evars>>

\* ------------------------------------------------------ retryDeployment
\* BlockchainDeploymentService.retryDeployment(deployFn), one call of it.
\* config.maxRetries and config.retryDelayMs are the caller's; deployFn
\* resolves with a result or rejects with an Error, as its caller decides.
RetryDelays == {1, 1000}
DeployErrors == {"insufficient funds", "timeout"}
DeployResults == {"0xC1", "0xC2"}
NoError == "undefined"
NoResult == [kind |-> "none"]

Pow2(n) == IF n <= 0 THEN 1 ELSE 2 ^ n

delayLinear(cfg, attempt) == cfg.retryDelayMs * attempt

\* const delay = this.config.retryDelayMs * Math.pow(2, attempt - 1)
delay(cfg, attempt) == cfg.retryDelayMs * Pow2(attempt - 1)

CatchKeepsFirst(prev, msg) == IF prev = NoError THEN msg ELSE prev

\* lastError = error as Error
Catch(prev, msg) == msg

CallEvent(k) == [op |-> "deployFn", attempt |-> k]
RejectEvent(k, msg) == [op |-> "rejected", attempt |-> k, message |-> msg]
ResolveEvent(k, r) == [op |-> "resolved", attempt |-> k, value |-> r]
SleepEvent(ms) == [op |-> "sleep", ms |-> ms]

\* throw new Error(`Deployment failed after ${maxRetries} attempts:
\* ${lastError?.message}`)
RetryThrow(err) ==
    /\ retryPc' = "thrown"
    /\ retryResult' = [kind |-> "error", attempts |-> retryConfig.maxRetries,
                       message |-> err]

\* The head of the for loop: attempt <= maxRetries calls deployFn, otherwise
\* the loop is left and the error is thrown.
RetryLoop(k, err) ==
    IF k <= retryConfig.maxRetries
    THEN /\ retryPc' = "deployFn"
         /\ retryTrace' = Append(retryTrace, CallEvent(k))
         /\ UNCHANGED retryResult
    ELSE /\ RetryThrow(err)
         /\ UNCHANGED retryTrace

\* let lastError = null; for (let attempt = 1; ...
retryDeployment ==
    /\ retryPc = "idle"
    /\ retryAttempt' = 1
    /\ lastError' = NoError
    /\ RetryLoop(1, NoError)
    /\ UNCHANGED <<retryConfig, qvars, avars, evars>>

\* return await deployFn(), deployFn resolving
DeployResolves ==
    /\ retryPc = "deployFn"
    /\ \E r \in DeployResults :
          /\ retryResult' = [kind |-> "result", value |-> r]
          /\ retryTrace' = Append(retryTrace, ResolveEvent(retryAttempt, r))
    /\ retryPc' = "returned"
    /\ UNCHANGED <<retryConfig, retryAttempt, lastError, qvars, avars, evars>>

\* deployFn rejecting: the catch block, up to the sleep or, after the last
\* attempt (attempt = maxRetries), through attempt++ and the failing loop
\* test to the throw.
DeployRejects ==
    /\ retryPc = "deployFn"
    /\ \E msg \in DeployErrors :
          LET err == Catch(lastError, msg)
              seen == Append(retryTrace, RejectEvent(retryAttempt, msg))
          IN
          /\ lastError' = err
          /\ IF retryAttempt < retryConfig.maxRetries
             THEN /\ retryTrace' = Append(seen, SleepEvent(delay(retryConfig, retryAttempt)))
                  /\ retryPc' = "sleep"
                  /\ UNCHANGED <<retryAttempt, retryResult>>
             ELSE /\ retryAttempt' = retryAttempt + 1
                  /\ retryTrace' = seen
                  /\ RetryThrow(err)
    /\ UNCHANGED <<retryConfig, qvars, avars, evars>>

\* await this.sleep(delay) over: attempt++ and the head of the loop
RetryWake ==
    /\ retryPc = "sleep"
    /\ retryAttempt' = retryAttempt + 1
    /\ RetryLoop(retryAttempt + 1, lastError)
    /\ UNCHANGED <<retryConfig, lastError, qvars, avars, evars>>

\* --------------------------------------------------------- AlertService
\* Strings are sequences of characters, so that the template literal of the
\* deduplication key is the concatenation it is.
AlertLevel == {"INFO", "WARNING", "CRITICAL"}
NotificationChannel == {"EMAIL", "SLACK", "SMS"}
\* The (source, title) pairs createAlert is called with: source "q" with
\* titles "x" and "e:x", and source "q:e" with title "x".
SourceTitles == {<<(<<"q">>), (<<"x">>)>>,
                 <<(<<"q">>), (<<"e", ":", "x">>)>>,
                 <<(<<"q", ":", "e">>), (<<"x">>)>>}
AlertIds == 1..MaxAlerts
NoAlert == [title |-> << >>, level |-> "INFO", status |-> "none", source |-> << >>]
NoTrigger == [via |-> "none", deduped |-> FALSE, attempted |-> {}, returned |-> FALSE]

\* Date.now() moves in steps of one window: two calls are no time, exactly
\* one window, or more than one window apart.
Tick == DeduplicationWindow

\* const deduplicationKey = `${alert.source}:${alert.title}`
deduplicationKey(alert) == alert.source \o <<":">> \o alert.title
DedupKeys == {deduplicationKey([source |-> st[1], title |-> st[2]]) : st \in SourceTitles}

\* lastAlertTime.get(key) is undefined for a key never set; 0 stands for it
\* (!lastTime holds of both).
shouldTriggerAlert(alert) ==
    LET lastTime == lastAlertTime[deduplicationKey(alert)] IN
    IF lastTime = 0 THEN TRUE ELSE now - lastTime > DeduplicationWindow

getChannelsForLevelAll(level) ==
    CASE level = "CRITICAL" -> <<"EMAIL", "SLACK", "SMS">>
      [] level = "WARNING" -> <<"EMAIL", "SLACK", "SMS">>
      [] level = "INFO" -> <<"SLACK">>
      [] OTHER -> << >>

getChannelsForLevel(level) ==
    CASE level = "CRITICAL" -> <<"EMAIL", "SLACK", "SMS">>
      [] level = "WARNING" -> <<"EMAIL", "SLACK">>
      [] level = "INFO" -> <<"SLACK">>
      [] OTHER -> << >>

\* send<Channel>Notification: false when the channel is not enabled in the
\* configuration, true once the notification is logged.
sendNotification(alert, channel) == notificationConfig[channel]

someResult(results) == \E i \in DOMAIN results : results[i]

\* results.every((result) => result)
everyResult(results) == \A i \in DOMAIN results : results[i]

isLowerLevel(newLevel, currentLevel) ==
    LET levelOrder == [l \in AlertLevel |->
                          CASE l = "INFO" -> 0 [] l = "WARNING" -> 1 [] OTHER -> 2] IN
    levelOrder[newLevel] < levelOrder[currentLevel]

isHigherOrEqualLevel(newLevel, currentLevel) ==
    LET levelOrder == [l \in AlertLevel |->
                          CASE l = "INFO" -> 0 [] l = "WARNING" -> 1 [] OTHER -> 2] IN
    levelOrder[newLevel] >= levelOrder[currentLevel]

isHigherLevel(newLevel, currentLevel) ==
    LET levelOrder == [l \in AlertLevel |->
                          CASE l = "INFO" -> 0 [] l = "WARNING" -> 1 [] OTHER -> 2] IN
    levelOrder[newLevel] > levelOrder[currentLevel]

\* generateAlertId: an id no alert has yet
FreeIds == {i \in AlertIds : svcAlerts[i].status = "none"}

\* Under AlertSpec alerts are created before the first triggerAlert call: createAlert writes
\* only the entry of a new id, which no call on another alert reads, so that a
\* later createAlert commutes with the calls before it.  Ids only name the
\* alerts, so they are given out in the order of AlertRank.
AlertRank(title, level, source) ==
    Len(source) * 100 + Len(title) * 10
        + (CASE level = "INFO" -> 0 [] level = "WARNING" -> 1 [] OTHER -> 2)

\* this.alerts.set(alert.id, alert) for the alert createAlert builds
setAlert(al, title, level, source) ==
    LET free == {i \in AlertIds : al[i].status = "none"}
        id == CHOOSE i \in free : \A k \in free : i <= k
    IN [al EXCEPT ![id] = [title |-> title, level |-> level, status |-> "ACTIVE",
                           source |-> source]]

AlertService_createAlertStamps(title, level, source) ==
    /\ FreeIds # {}
    /\ svcAlerts' = setAlert(svcAlerts, title, level, source)
    /\ lastAlertTime' = [lastAlertTime EXCEPT
                            ![deduplicationKey([source |-> source, title |-> title])] = now]
    /\ UNCHANGED <<notificationConfig, rules, now, lastTrigger, lastDispatch,
                   qvars, rvars, evars>>

AlertService_createAlert(title, level, source) ==
    /\ FreeIds # {}
    /\ svcAlerts' = setAlert(svcAlerts, title, level, source)
    /\ UNCHANGED <<notificationConfig, rules, lastAlertTime, now, lastTrigger, lastDispatch,
                   qvars, rvars, evars>>

\* createAlert as AlertSpec calls it: in the order of AlertRank and before
\* the first triggerAlert call
CreateFirst(title, level, source) ==
    /\ lastTrigger = NoTrigger
    /\ \A i \in AlertIds \ FreeIds :
          AlertRank(svcAlerts[i].title, svcAlerts[i].level, svcAlerts[i].source)
              <= AlertRank(title, level, source)
    /\ AlertService_createAlert(title, level, source)

TriggerBodyRestarts(alert, via) ==
    IF ~shouldTriggerAlert(alert)
    THEN /\ lastTrigger' = [via |-> via, deduped |-> TRUE, attempted |-> {},
                            returned |-> FALSE]
         /\ lastAlertTime' = [lastAlertTime EXCEPT ![deduplicationKey(alert)] = now]
         /\ UNCHANGED lastDispatch
    ELSE LET channels == getChannelsForLevel(alert.level)
             results == [i \in DOMAIN channels |-> sendNotification(alert, channels[i])]
         IN
         /\ lastAlertTime' = [lastAlertTime EXCEPT ![deduplicationKey(alert)] = now]
         /\ lastDispatch' = [lastDispatch EXCEPT ![<<alert.source, alert.title>>] = now]
         /\ lastTrigger' = [via |-> via, deduped |-> FALSE,
                            attempted |-> {channels[i] : i \in DOMAIN channels},
                            returned |-> everyResult(results)]

\* The body of triggerAlert(alert); Promise.all starts every send before any
\* of them is awaited.
TriggerBody(alert, via) ==
    IF ~shouldTriggerAlert(alert)
    THEN /\ lastTrigger' = [via |-> via, deduped |-> TRUE, attempted |-> {},
                            returned |-> FALSE]
         /\ UNCHANGED <<lastAlertTime, lastDispatch>>
    ELSE LET channels == getChannelsForLevel(alert.level)
             results == [i \in DOMAIN channels |-> sendNotification(alert, channels[i])]
         IN
         /\ lastAlertTime' = [lastAlertTime EXCEPT ![deduplicationKey(alert)] = now]
         /\ lastDispatch' = [lastDispatch EXCEPT ![<<alert.source, alert.title>>] = now]
         /\ lastTrigger' = [via |-> via, deduped |-> FALSE,
                            attempted |-> {channels[i] : i \in DOMAIN channels},
                            returned |-> everyResult(results)]

triggerAlert(id) ==
    /\ svcAlerts[id].status # "none"
    /\ TriggerBody(svcAlerts[id], "triggerAlert")
    /\ UNCHANGED <<svcAlerts, notificationConfig, rules, now, qvars, rvars, evars>>

\* escalateAlert: the triggerAlert call is not awaited, and runs up to its
\* Promise.all, that is through the deduplication test and every send, before
\* escalateAlert returns.
escalateAlert(alertId, newLevel) ==
    /\ IF svcAlerts[alertId].status # "none"
          /\ isHigherLevel(newLevel, svcAlerts[alertId].level)
       THEN /\ svcAlerts' = [svcAlerts EXCEPT ![alertId].level = newLevel]
            /\ TriggerBody([svcAlerts[alertId] EXCEPT !.level = newLevel], "escalateAlert")
       ELSE UNCHANGED <<svcAlerts, lastAlertTime, lastTrigger, lastDispatch>>
    /\ UNCHANGED <<notificationConfig, rules, now, qvars, rvars, evars>>

\* acknowledgeAlert: if (alert) { alert.status = ACKNOWLEDGED }
acknowledgeAlert(alertId) ==
    /\ svcAlerts' = IF svcAlerts[alertId].status # "none"
                    THEN [svcAlerts EXCEPT ![alertId].status = "ACKNOWLEDGED"]
                    ELSE svcAlerts
    /\ UNCHANGED <<notificationConfig, rules, lastAlertTime, now, lastTrigger, lastDispatch,
                   qvars, rvars, evars>>

\* resolveAlert: if (alert) { alert.status = RESOLVED }
resolveAlert(alertId) ==
    /\ svcAlerts' = IF svcAlerts[alertId].status # "none"
                    THEN [svcAlerts EXCEPT ![alertId].status = "RESOLVED"]
                    ELSE svcAlerts
    /\ UNCHANGED <<notificationConfig, rules, lastAlertTime, now, lastTrigger, lastDispatch,
                   qvars, rvars, evars>>

\* Rules.  A condition is a function of the data handed to evaluateRules:
\* "positive" holds of data > 0, "always" of every data, and "throws" throws.
RuleEngine == <<"rule-engine">>
RuleData == {0, 1}

condition(rule, data) ==
    CASE rule.condition = "positive" -> data > 0
      [] rule.condition = "always" -> TRUE
      [] OTHER -> FALSE

\* if (!rule.enabled) continue; try { if (rule.condition(data)) ... }
\* catch (error) { console.error(...) }
RuleFires(rule, data) ==
    /\ rule.enabled
    /\ rule.condition # "throws"
    /\ condition(rule, data)

\* the loop of evaluateRules from rule i on: one createAlert per rule that
\* fires, with the name of the rule as title and source 'rule-engine'
RECURSIVE EvaluateFrom(_, _, _)
EvaluateFrom(al, i, data) ==
    IF i > Len(rules) THEN al
    ELSE IF RuleFires(rules[i], data)
         THEN EvaluateFrom(setAlert(al, rules[i].name, rules[i].level, RuleEngine),
                           i + 1, data)
         ELSE EvaluateFrom(al, i + 1, data)

\* evaluateRules(data); it is called while ids are left for its alerts
evaluateRules(data) ==
    /\ Cardinality({i \in DOMAIN rules : RuleFires(rules[i], data)})
          <= Cardinality(FreeIds)
    /\ svcAlerts' = EvaluateFrom(svcAlerts, 1, data)
    /\ UNCHANGED <<notificationConfig, rules, lastAlertTime, now, lastTrigger, lastDispatch,
                   qvars, rvars, evars>>

\* Time passing between two calls.  Only differences of times are ever
\* compared, so the clock is started by the first dispatch.
ClockTick ==
    /\ now < MaxTicks * Tick
    /\ \E k \in DedupKeys : lastAlertTime[k] # 0
    /\ now' = now + Tick
    /\ UNCHANGED <<svcAlerts, notificationConfig, rules, lastAlertTime, lastTrigger,
                   lastDispatch, qvars, rvars, evars>>

\* ------------------------------------------------------- specification
QueueStart ==
    /\ service \in {"DeploymentQueueProcessor", "MarketResolutionService"}
    /\ isProcessing = FALSE
    /\ batchSize \in {1, DefaultBatchSize}
    /\ queue = [j \in Jobs |-> Absent]
    /\ enqueued = << >>
    /\ liveRefs \in BOOLEAN
    /\ service = "MarketResolutionService" => (~liveRefs /\ batchSize = DefaultBatchSize)
    /\ pc = [t \in Triggers |-> "idle"]
    /\ phase = [t \in Triggers |-> "pending"]
    /\ items = [t \in Triggers |-> << >>]
    /\ idx = [t \in Triggers |-> 0]
    /\ elapsed = [t \in Triggers |-> 0]
    /\ nearMiss = [t \in Triggers |-> FALSE]
    /\ receipt = [t \in Triggers |-> NoReceipt]
    /\ failures = [j \in Jobs |-> 0]
    /\ alerts = [k \in AlertKeys |-> 0]
    /\ skipped = FALSE
    /\ timedOut = [t \in Triggers |-> {}]
    /\ faults = 0

QueueInit == QueueStart /\ audit = AuditUntracked

Unused == << >>

QueueUnused ==
    /\ service = Unused
    /\ isProcessing = Unused
    /\ batchSize = Unused
    /\ queue = Unused
    /\ enqueued = Unused
    /\ liveRefs = Unused
    /\ pc = Unused
    /\ phase = Unused
    /\ items = Unused
    /\ idx = Unused
    /\ elapsed = Unused
    /\ nearMiss = Unused
    /\ receipt = Unused
    /\ failures = Unused
    /\ alerts = Unused
    /\ skipped = Unused
    /\ timedOut = Unused
    /\ faults = Unused
    /\ audit = Unused

RetryUnused ==
    /\ retryConfig = Unused
    /\ retryPc = Unused
    /\ retryAttempt = Unused
    /\ lastError = Unused
    /\ retryTrace = Unused
    /\ retryResult = Unused

AlertUnused ==
    /\ svcAlerts = Unused
    /\ notificationConfig = Unused
    /\ rules = Unused
    /\ lastAlertTime = Unused
    /\ now = Unused
    /\ lastTrigger = Unused
    /\ lastDispatch = Unused

ExtUnused ==
    /\ gasManager = Unused
    /\ db = Unused
    /\ oracleConfig = Unused

\* retryDeployment before it is called
RetryIdle ==
    /\ retryPc = "idle"
    /\ retryAttempt = 0
    /\ lastError = NoError
    /\ retryTrace = << >>
    /\ retryResult = NoResult

AlertIdle ==
    /\ rules = << >>
    /\ svcAlerts = [i \in AlertIds |-> NoAlert]
    /\ lastAlertTime = [k \in DedupKeys |-> 0]
    /\ now = Tick
    /\ lastTrigger = NoTrigger
    /\ lastDispatch = [st \in SourceTitles |-> 0]

Init ==
    /\ QueueInit
    /\ RetryUnused
    /\ AlertUnused
    /\ ExtUnused

Next ==
    \/ \E t \in Triggers : processQueue(t)
    \/ \E t \in Triggers : FetchPending(t)
    \/ \E t \in Triggers : MarkProcessing(t)
    \/ \E t \in Triggers : Estimate(t)
    \/ \E t \in Triggers : Submit(t)
    \/ \E t \in Triggers : Poll(t)
    \/ \E t \in Triggers : Sleep(t)
    \/ \E t \in Triggers : Save(t)
    \/ \E t \in Triggers : MarkCompleted(t)
    \/ \E t \in Triggers : MarkFailed(t)
    \/ \E t \in Triggers : FetchFailed(t)
    \/ \E t \in Triggers : MarkExhausted(t)
    \/ \E j \in Jobs, p \in BinaryMarketParams, m \in 0..MaxRetriesBound :
          Enqueue(j, "BinaryMarket", p, m)
    \/ \E j \in Jobs : createMarketAndQueue(j)
    \/ \E t \in Triggers : processDeploymentQueue(t)
    \/ \E t \in Triggers : MarkDeploying(t)
    \/ \E t \in Triggers : MarkDeployed(t)
    \/ \E t \in Triggers : handleDeploymentFailure(t)
    \/ \E t \in Triggers : retryFailedDeployments(t)
    \/ \E t \in Triggers : ResetFailed(t)

Spec == Init /\ [][Next]_vars

\* The event loop runs every continuation whose awaited promise has settled:
\* store calls, timers and the receipt polls settle.  No timeout or race
\* surrounds await gasManager.estimateGas(...), so whether Estimate is ever
\* taken is up to the provider.
Fairness ==
    /\ \A t \in Triggers : WF_vars(FetchPending(t))
    /\ \A t \in Triggers : WF_vars(MarkProcessing(t))
    /\ \A t \in Triggers : WF_vars(Submit(t))
    /\ \A t \in Triggers : WF_vars(Poll(t))
    /\ \A t \in Triggers : WF_vars(Sleep(t))
    /\ \A t \in Triggers : WF_vars(Save(t))
    /\ \A t \in Triggers : WF_vars(MarkCompleted(t))
    /\ \A t \in Triggers : WF_vars(MarkFailed(t))
    /\ \A t \in Triggers : WF_vars(FetchFailed(t))
    /\ \A t \in Triggers : WF_vars(MarkExhausted(t))
    /\ \A t \in Triggers : WF_vars(MarkDeploying(t))
    /\ \A t \in Triggers : WF_vars(MarkDeployed(t))
    /\ \A t \in Triggers : WF_vars(handleDeploymentFailure(t))
    /\ \A t \in Triggers : WF_vars(ResetFailed(t))

LiveSpec == Spec /\ Fairness

\* A provider whose calls all settle, and a periodic trigger that keeps
\* firing: setInterval calls processQueue every intervalMs, and the runs of
\* processDeploymentQueue are scheduled likewise.
SettlingFairness ==
    /\ Fairness
    /\ \A t \in Triggers : WF_vars(Estimate(t))
    /\ \A t \in Triggers : WF_vars(processQueue(t))
    /\ \A t \in Triggers : WF_vars(processDeploymentQueue(t))

SettlingSpec == Spec /\ SettlingFairness

\* One call of retryDeployment, under every configuration.
RetryInit ==
    /\ QueueUnused
    /\ AlertUnused
    /\ ExtUnused
    /\ RetryIdle
    /\ retryConfig \in [maxRetries : 0..MaxRetriesCfg, retryDelayMs : RetryDelays]

RetryNext ==
    \/ retryDeployment
    \/ DeployResolves
    \/ DeployRejects
    \/ RetryWake

RetrySpec == RetryInit /\ [][RetryNext]_vars

\* The DeploymentQueueProcessor with one job of either type, under every
\* combination of parameter values.
ValidationInit ==
    /\ QueueInit
    /\ service = "DeploymentQueueProcessor"
    /\ RetryUnused
    /\ AlertUnused
    /\ gasManager = Unused
    /\ db = Unused
    /\ oracleConfig = [whitelist |-> OracleWhitelist]

ValidationNext ==
    \/ \E t \in Triggers : processQueue(t)
    \/ \E t \in Triggers : FetchPending(t)
    \/ \E t \in Triggers : MarkProcessing(t)
    \/ \E t \in Triggers : Estimate(t)
    \/ \E t \in Triggers : Submit(t)
    \/ \E t \in Triggers : Poll(t)
    \/ \E t \in Triggers : Sleep(t)
    \/ \E t \in Triggers : Save(t)
    \/ \E t \in Triggers : MarkCompleted(t)
    \/ \E t \in Triggers : MarkFailed(t)
    \/ \E t \in Triggers : FetchFailed(t)
    \/ \E t \in Triggers : MarkExhausted(t)
    \/ \E p \in MarketParamsTried, m \in 0..MaxRetriesBound :
          Enqueue(1, "BinaryMarket", p, m)
    \/ \E p \in VaultParamsTried, m \in 0..MaxRetriesBound :
          Enqueue(1, "CopyTradingVault", p, m)

ValidationSpec == ValidationInit /\ [][ValidationNext]_vars

\* The MarketResolutionService with the calls of logAudit followed.
AuditInit ==
    /\ QueueStart
    /\ service = "MarketResolutionService"
    /\ audit = NoAudit
    /\ RetryUnused
    /\ AlertUnused
    /\ ExtUnused

AuditNext ==
    \/ \E j \in Jobs : createMarketAndQueue(j)
    \/ \E t \in Triggers : processDeploymentQueue(t)
    \/ \E t \in Triggers : MarkDeploying(t)
    \/ \E t \in Triggers : MarkDeployed(t)
    \/ \E t \in Triggers : handleDeploymentFailure(t)
    \/ \E t \in Triggers : retryFailedDeployments(t)
    \/ \E t \in Triggers : ResetFailed(t)

AuditSpec == AuditInit /\ [][AuditNext]_vars

\* An AlertService with every channel enabled and two rules: the first with
\* a condition on the data, enabled or not, the second enabled with a
\* condition that holds or throws.  Alerts are created with source "q" and
\* title "x", or by the rules.
RuleSets ==
    {<<[id |-> 1, name |-> <<"r1">>, condition |-> "positive", level |-> "WARNING",
        enabled |-> en],
       [id |-> 2, name |-> <<"r2">>, condition |-> c, level |-> "CRITICAL",
        enabled |-> TRUE]>> : en \in BOOLEAN, c \in {"always", "throws"}}

OpsSourceTitles ==
    {<<(<<"q">>), (<<"x">>)>>} \cup {<<RuleEngine, rs[i].name>> : rs \in RuleSets, i \in 1..2}

OpsInit ==
    /\ QueueUnused
    /\ RetryUnused
    /\ ExtUnused
    /\ svcAlerts = [i \in AlertIds |-> NoAlert]
    /\ notificationConfig = [ch \in NotificationChannel |-> TRUE]
    /\ rules \in RuleSets
    /\ lastAlertTime =
          [k \in {deduplicationKey([source |-> st[1], title |-> st[2]]) :
                     st \in OpsSourceTitles} |-> 0]
    /\ now = Tick
    /\ lastTrigger = NoTrigger
    /\ lastDispatch = [st \in OpsSourceTitles |-> 0]

OpsNext ==
    \/ \E level \in AlertLevel : AlertService_createAlert(<<"x">>, level, <<"q">>)
    \/ \E id \in AlertIds : triggerAlert(id)
    \/ \E id \in AlertIds : acknowledgeAlert(id)
    \/ \E id \in AlertIds : resolveAlert(id)
    \/ \E id \in AlertIds, level \in AlertLevel : escalateAlert(id, level)
    \/ \E data \in RuleData : evaluateRules(data)

OpsSpec == OpsInit /\ [][OpsNext]_vars

\* An AlertService under every notification configuration.
AlertInit ==
    /\ QueueUnused
    /\ RetryUnused
    /\ ExtUnused
    /\ AlertIdle
    /\ notificationConfig \in [NotificationChannel -> BOOLEAN]

AlertNext ==
    \/ \E st \in SourceTitles, level \in AlertLevel :
          CreateFirst(st[2], level, st[1])
    \/ \E id \in AlertIds : triggerAlert(id)
    \/ \E id \in AlertIds, newLevel \in AlertLevel : escalateAlert(id, newLevel)
    \/ ClockTick

AlertSpec == AlertInit /\ [][AlertNext]_vars

\* ------------------------------------------------------ a GasManager
\* estimateGas runs in three steps, one per provider call it awaits;
\* isValidGasPrice and updateConfig return at once.
NoCall ==
    [op |-> "none", pc |-> "idle",
     asked |-> [gasEstimate |-> Null, feeData |-> NoFeeData, gasPrice |-> Null],
     quote |-> [gasLimit |-> 0, gasPrice |-> 0, maxFeePerGas |-> 0,
                maxPriorityFeePerGas |-> 0, totalCost |-> 0],
     arg |-> 0, result |-> FALSE, error |-> ""]

GasEstimatesTried == {Fails, 10}
GasPricesTried == (0..MaxGasPrice) \cup {Fails}
ValidityPricesTried == {1, HalfGwei(1), HalfGwei(2), HalfGwei(3), 7, HalfGwei(4), 9,
                        HalfGwei(500), HalfGwei(501)}

ConfigsTried ==
    [priceMultiplier : {Multiplier(0, 1), Multiplier(11, 10), Multiplier(3, 2)},
     limitMultiplier : {Multiplier(0, 1)},
     maxGasPriceGwei : {0, HalfGwei(3)},
     minGasPriceGwei : {0, HalfGwei(2)}]

UpdatesTried ==
    {[maxGasPriceGwei |-> HalfGwei(4)], [minGasPriceGwei |-> 1],
     [priceMultiplier |-> Multiplier(11, 10)]}

CallOver == gasManager.call.pc \in {"idle", "returned", "thrown"}

\* estimateGas, to the end of its first await:
\* const gasLimit = await this.estimateTransactionGas(transaction)
EstimateGasLimit ==
    /\ CallOver
    /\ \E gasEstimate \in GasEstimatesTried :
          gasManager' = [gasManager EXCEPT !.call =
             [NoCall EXCEPT !.op = "estimateGas", !.pc = "fees",
                            !.asked.gasEstimate = gasEstimate,
                            !.quote.gasLimit =
                               estimateTransactionGas(gasManager.config, gasEstimate)]]
    /\ UNCHANGED <<db, oracleConfig, qvars, rvars, avars>>

\* const feeData = await this.getEIP1559Fees();
\* const totalCost = gasLimit * feeData.maxFeePerGas
EstimateGasFees ==
    /\ gasManager.call.pc = "fees"
    /\ \E feeData \in FeeDataTried :
          LET fees == getEIP1559Fees(gasManager.config, feeData) IN
          IF fees.thrown
          THEN gasManager' = [gasManager EXCEPT !.call.pc = "thrown",
                                 !.call.asked.feeData = feeData,
                                 !.call.error = "Failed to get EIP-1559 fees"]
          ELSE gasManager' = [gasManager EXCEPT !.call.pc = "gasPrice",
                                 !.call.asked.feeData = feeData,
                                 !.call.quote.maxFeePerGas = fees.maxFeePerGas,
                                 !.call.quote.maxPriorityFeePerGas = fees.maxPriorityFeePerGas,
                                 !.call.quote.totalCost =
                                    gasManager.call.quote.gasLimit * fees.maxFeePerGas]
    /\ UNCHANGED <<db, oracleConfig, qvars, rvars, avars>>

\* return { gasLimit, gasPrice: await this.getGasPrice(), ... }
EstimateGasPrice ==
    /\ gasManager.call.pc = "gasPrice"
    /\ \E gasPrice \in GasPricesTried :
          IF gasPrice = Fails
          THEN gasManager' = [gasManager EXCEPT !.call.pc = "thrown",
                                 !.call.asked.gasPrice = gasPrice,
                                 !.call.error = "provider error"]
          ELSE gasManager' = [gasManager EXCEPT !.call.pc = "returned",
                                 !.call.asked.gasPrice = gasPrice,
                                 !.call.quote.gasPrice =
                                    getGasPrice(gasManager.config, gasPrice)]
    /\ UNCHANGED <<db, oracleConfig, qvars, rvars, avars>>

\* a call of isValidGasPrice(gasPrice)
ValidateGasPrice(gasPrice) ==
    /\ CallOver
    /\ gasManager' = [gasManager EXCEPT !.call =
          [NoCall EXCEPT !.op = "isValidGasPrice", !.pc = "returned", !.arg = gasPrice,
                         !.result = isValidGasPrice(gasManager.config, gasPrice)]]
    /\ UNCHANGED <<db, oracleConfig, qvars, rvars, avars>>

\* updateConfig(config): this.config = { ...this.config, ...config }
updateConfig(config) ==
    /\ gasManager' = [gasManager EXCEPT !.config =
          [f \in DOMAIN gasManager.config |->
              IF f \in DOMAIN config THEN config[f] ELSE gasManager.config[f]]]
    /\ UNCHANGED <<db, oracleConfig, qvars, rvars, avars>>

GasInit ==
    /\ QueueUnused
    /\ RetryUnused
    /\ AlertUnused
    /\ db = Unused
    /\ oracleConfig = Unused
    /\ \E config \in ConfigsTried : gasManager = [config |-> GasManager(config), call |-> NoCall]

GasNext ==
    \/ EstimateGasLimit
    \/ EstimateGasFees
    \/ EstimateGasPrice
    \/ \E gasPrice \in ValidityPricesTried : ValidateGasPrice(gasPrice)
    \/ \E config \in UpdatesTried : updateConfig(config)

GasSpec == GasInit /\ [][GasNext]_vars

\* ------------------------------------------------ a DeploymentValidator
\* The whitelist of a DeploymentValidator, from any configuration handed to
\* the constructor (which keeps it as it is), under the calls that change it.
AddressesTried == {"0xA", "0xa", "0xB", "0xb", "zz"}

RECURSIVE SeqsUpTo(_, _)
SeqsUpTo(S, n) ==
    IF n = 0 THEN {<< >>}
    ELSE SeqsUpTo(S, n - 1) \cup {Append(w, a) : w \in SeqsUpTo(S, n - 1), a \in S}

WhitelistsTried == SeqsUpTo(AddressesTried, MaxWhitelist)

\* whitelist.map((addr) => addr.toLowerCase())
lowered(whitelist) == [i \in DOMAIN whitelist |-> toLowerCase(whitelist[i])]

setOracleWhitelist(whitelist) ==
    /\ oracleConfig' = [oracleConfig EXCEPT !.whitelist = lowered(whitelist)]
    /\ UNCHANGED <<gasManager, db, qvars, rvars, avars>>

\* if (ethers.isAddress(address)) { if (!whitelist.includes(lowerAddress))
\*    whitelist.push(lowerAddress) }
added(whitelist, address) ==
    IF isAddress(address)
       /\ \A i \in DOMAIN whitelist : whitelist[i] # toLowerCase(address)
    THEN Append(whitelist, toLowerCase(address))
    ELSE whitelist

addOracleToWhitelist(address) ==
    /\ Len(oracleConfig.whitelist) < MaxWhitelist
    /\ oracleConfig' = [oracleConfig EXCEPT !.whitelist = added(oracleConfig.whitelist, address)]
    /\ UNCHANGED <<gasManager, db, qvars, rvars, avars>>

\* whitelist.filter((addr) => addr !== lowerAddress)
RECURSIVE removed(_, _)
removed(whitelist, address) ==
    IF whitelist = << >> THEN << >>
    ELSE IF Head(whitelist) # toLowerCase(address)
         THEN <<Head(whitelist)>> \o removed(Tail(whitelist), address)
         ELSE removed(Tail(whitelist), address)

removeOracleFromWhitelist(address) ==
    /\ oracleConfig' = [oracleConfig EXCEPT !.whitelist = removed(oracleConfig.whitelist, address)]
    /\ UNCHANGED <<gasManager, db, qvars, rvars, avars>>

WhitelistInit ==
    /\ QueueUnused
    /\ RetryUnused
    /\ AlertUnused
    /\ gasManager = Unused
    /\ db = Unused
    /\ oracleConfig \in [whitelist : WhitelistsTried]

WhitelistNext ==
    \/ \E whitelist \in WhitelistsTried : setOracleWhitelist(whitelist)
    \/ \E address \in AddressesTried : addOracleToWhitelist(address)
    \/ \E address \in AddressesTried : removeOracleFromWhitelist(address)

WhitelistSpec == WhitelistInit /\ [][WhitelistNext]_vars

\* ------------------------------------- concurrent createMarketAndQueue
\* createMarketAndQueue followed from await to await, for callers that run
\* at the same time (requests of the createMarket procedure).  A row of a
\* table has its position in the table as id.
Callers == 1..NumCallers
SourceIds == {"s1", "s2"}
NoMarketCall == [pc |-> "idle", sourceId |-> "", marketId |-> 0]

\* const existing = await db.select().from(markets)
\*    .where(eq(markets.sourceId, sourceId)).limit(1); return existing.length > 0
isDuplicateMarket(rows, sourceId) ==
    \E i \in DOMAIN rows : rows[i].sourceId = sourceId

\* the call, to the end of the select of isDuplicateMarket:
\* if (await this.isDuplicateMarket(marketData.sourceId)) throw new Error(...)
CheckDuplicate(c, sourceId) ==
    /\ db.calls[c].pc = "idle"
    /\ db' = [db EXCEPT !.calls[c] =
                 IF isDuplicateMarket(db.markets, sourceId) THEN NoMarketCall
                 ELSE [pc |-> "duplicateChecked", sourceId |-> sourceId, marketId |-> 0]]
    /\ UNCHANGED <<gasManager, oracleConfig, qvars, rvars, avars>>

\* if (!await this.isOracleWhitelisted(marketData.oracleAddress)) throw ...;
\* then await this.resolveMarketStatus(...), which reads no table
CheckOracle(c) ==
    /\ db.calls[c].pc = "duplicateChecked"
    /\ \E whitelisted \in BOOLEAN :
          db' = [db EXCEPT !.calls[c] =
                    IF whitelisted THEN [db.calls[c] EXCEPT !.pc = "oracleChecked"]
                    ELSE NoMarketCall]
    /\ UNCHANGED <<gasManager, oracleConfig, qvars, rvars, avars>>

\* const [marketResult] = await db.insert(markets).values({...}).returning(...)
InsertMarket(c) ==
    /\ db.calls[c].pc = "oracleChecked"
    /\ Len(db.markets) < MaxMarkets
    /\ db' = [db EXCEPT !.markets = Append(db.markets, [sourceId |-> db.calls[c].sourceId]),
                        !.calls[c].pc = "marketInserted",
                        !.calls[c].marketId = Len(db.markets) + 1]
    /\ UNCHANGED <<gasManager, oracleConfig, qvars, rvars, avars>>

\* const [queueResult] = await db.insert(contractDeployQueue).values({ marketId, ... });
\* await logAudit('MARKET_CREATED', ...); return { marketId, queueId }
InsertQueueItem(c) ==
    /\ db.calls[c].pc = "marketInserted"
    /\ db' = [db EXCEPT !.contractDeployQueue =
                           Append(db.contractDeployQueue, [marketId |-> db.calls[c].marketId]),
                        !.calls[c] = NoMarketCall]
    /\ UNCHANGED <<gasManager, oracleConfig, qvars, rvars, avars>>

MarketInit ==
    /\ QueueUnused
    /\ RetryUnused
    /\ AlertUnused
    /\ gasManager = Unused
    /\ oracleConfig = Unused
    /\ db = [markets |-> << >>, contractDeployQueue |-> << >>,
             calls |-> [c \in Callers |-> NoMarketCall]]

MarketNext ==
    \/ \E c \in Callers, sourceId \in SourceIds : CheckDuplicate(c, sourceId)
    \/ \E c \in Callers : CheckOracle(c)
    \/ \E c \in Callers : InsertMarket(c)
    \/ \E c \in Callers : InsertQueueItem(c)

MarketSpec == MarketInit /\ [][MarketNext]_vars

\* ------------------------------------------------------------- claims
IsPending(j) == queue[j].status \in {"pending", "PENDING"}
IsProcessing(j) == queue[j].status \in {"processing", "DEPLOYING"}
IsCompleted(j) == queue[j].status \in {"completed", "DEPLOYED"}
IsFailed(j) == queue[j].status \in {"failed", "FAILED"}

\* invocation t runs the body of a batch
InBatch(t) == pc[t] # "idle"

\* invocation t has an item in hand
HasItem(t) ==
    pc[t] \in {"markProcessing", "estimate", "submit", "poll", "sleep", "save",
               "markCompleted", "markFailed", "markExhausted",
               "mDeploying", "mDeploy", "mFail", "rReset"}

\* invocation t has marked its item Processing and not yet finished with it
Holds(t) ==
    pc[t] \in {"estimate", "submit", "poll", "sleep", "save", "markCompleted", "mDeploy"}

\* the deploy call of invocation t is in flight
Deploying(t) == pc[t] \in {"estimate", "submit", "poll", "sleep", "mDeploy"}

AtRest(j) == \A t \in Triggers : HasItem(t) => CurId(t) # j

CriticalAlerts(j) == alerts[<<j, "CRITICAL">>] + alerts[<<j, "OWNER">>]

\* C1: a processQueue invocation that arrives while a batch is in progress
\* returns without changing anything of the queue, and at most one batch
\* body runs at a time.
C1_SingleBatch ==
    /\ [](service = "DeploymentQueueProcessor"
             => Cardinality({t \in Triggers : InBatch(t)}) <= 1)
    /\ [][(service = "DeploymentQueueProcessor" /\ isProcessing /\ ~skipped /\ skipped')
            => UNCHANGED <<isProcessing, queue, enqueued, pc, phase, items, idx, alerts,
                           failures>>]_vars

C1_Witness ==
    /\ service = "DeploymentQueueProcessor"
    /\ skipped
    /\ isProcessing
    /\ \E t \in Triggers : HasItem(t)

\* C2: when an invocation that passed the guard finishes, by completion, by
\* the early return, or by an exception, isProcessing is false.
C2_FlagReleased ==
    [][\A t \in Triggers :
         (service = "DeploymentQueueProcessor" /\ InBatch(t) /\ ~InBatch(t)')
            => ~isProcessing']_vars

C2_Witness ==
    /\ service = "DeploymentQueueProcessor"
    /\ alerts[<<NoJob, "CRITICAL">>] > 0
    /\ \E j \in Jobs : IsCompleted(j)
    /\ \A t \in Triggers : ~InBatch(t)
    /\ ~isProcessing

\* C3: no job is held in Processing by two executions at once, and no job
\* has two deploy calls in flight.
C3_NoDoubleHold ==
    \A t1, t2 \in Triggers :
        (t1 # t2 /\ Holds(t1) /\ Holds(t2)) => CurId(t1) # CurId(t2)

\* C4: retryCount <= maxRetries for every job, in the store and in every
\* fetched item.
C4_RetryBound ==
    /\ \A j \in Jobs : queue[j].retryCount <= queue[j].maxRetries
    /\ \A t \in Triggers : \A i \in 1..Len(items[t]) :
          items[t][i].retryCount <= items[t][i].maxRetries

C4_Witness ==
    \E j \in Jobs :
        /\ IsFailed(j)
        /\ queue[j].maxRetries > 0
        /\ queue[j].retryCount = queue[j].maxRetries
        /\ failures[j] > queue[j].maxRetries

\* C5: the status of a job changes only along Pending -> Processing,
\* Processing -> Completed, Processing -> Pending and Processing -> Failed.
C5_StatusEdges ==
    [][\A j \in Jobs :
         (service = "DeploymentQueueProcessor" /\ faults' = 0
            /\ queue[j].status # "none" /\ queue'[j].status # queue[j].status)
            => \/ IsPending(j) /\ IsProcessing(j)'
               \/ IsProcessing(j) /\ (IsCompleted(j)' \/ IsPending(j)' \/ IsFailed(j)')]_vars

\* C6: a Completed job never changes status, a Failed job changes status
\* only by the operator retry action.
C6_TerminalStates ==
    [][\A j \in Jobs :
         (service = "DeploymentQueueProcessor" /\ faults' = 0)
         => /\ IsCompleted(j) => IsCompleted(j)'
            /\ (IsFailed(j) /\ ~IsFailed(j)')
                  => \E t \in Triggers : pc[t] = "rReset" /\ CurId(t) = j]_vars

\* C7: a job that has failed fewer than maxRetries times is Pending again;
\* a job is Failed with exactly one Critical alert, and there is no Critical
\* alert for a job that is not Failed.
C7_RetryThenCritical ==
    \A j \in Jobs :
        faults = 0
        => /\ (AtRest(j) /\ 0 < failures[j] /\ failures[j] < queue[j].maxRetries)
                 => IsPending(j)
           /\ IsFailed(j) => CriticalAlerts(j) = 1
           /\ (queue[j].status # "none" /\ ~IsFailed(j)) => CriticalAlerts(j) = 0

\* C8: a job whose parameters fail validation is attempted once, ends Failed
\* with retryCount = 0 and a Warning alert, and is never attempted again.
C8_ValidationFinal ==
    \A j \in Jobs :
        (faults = 0 /\ queue[j].status # "none"
           /\ ~validateParams(queue[j].type, queue[j].params) /\ failures[j] > 0)
        => /\ failures[j] = 1
           /\ queue[j].retryCount = 0
           /\ AtRest(j) => (IsFailed(j) /\ alerts[<<j, "WARNING">>] = 1)

\* C9: every failed deployment attempt increments retryCount by exactly one.
C9_OneIncrementPerFailure ==
    \A j \in Jobs :
        (service = "DeploymentQueueProcessor" /\ faults = 0 /\ liveRefs /\ AtRest(j)
           /\ failures[j] <= queue[j].maxRetries)
        => queue[j].retryCount = failures[j]

\* C10: when every receipt polled until the timeout has
\* ConfirmationBlocks - 1 confirmations, the deployment of a fresh job with
\* maxRetries >= 1 fails and the job becomes Pending with retryCount = 1.
C10_TimeoutRetries ==
    [][\A t \in Triggers :
         (/\ pc[t] = "markFailed" /\ pc'[t] # "markFailed" /\ faults' = faults
          /\ nearMiss[t]
          /\ CurItem(t).error = "Deployment timeout"
          /\ failures[CurId(t)] = 1
          /\ CurItem(t).retryCount = 0
          /\ CurItem(t).maxRetries >= 1)
         => /\ queue'[CurId(t)].status = "pending"
            /\ queue'[CurId(t)].retryCount = 1]_vars

\* C11: a deploy call gets a result from the confirmation wait only with a
\* receipt that is present and has at least ConfirmationBlocks
\* confirmations, and a job becomes Completed only in a call holding one.
C11_ConfirmedReceipt ==
    /\ [](\A t \in Triggers :
            pc[t] \in {"save", "markCompleted"}
               => /\ receipt[t].confirmations # -1
                  /\ receipt[t].confirmations >= ConfirmationBlocks)
    /\ [][\A j \in Jobs :
            (service = "DeploymentQueueProcessor" /\ ~IsCompleted(j) /\ IsCompleted(j)')
               => \E t \in Triggers :
                     /\ pc[t] = "markCompleted" /\ CurId(t) = j
                     /\ receipt[t].confirmations >= ConfirmationBlocks]_vars

C11_Witness ==
    /\ service = "DeploymentQueueProcessor"
    /\ \E j \in Jobs : IsCompleted(j) /\ failures[j] > 0

\* C12: a job is never marked Completed on a receipt whose status is an
\* on-chain revert.
C12_RevertNotSuccess ==
    [][\A t \in Triggers :
         (/\ service = "DeploymentQueueProcessor"
          /\ pc[t] = "markCompleted"
          /\ queue'[CurId(t)].status = "completed")
         => receipt[t].status # "reverted"]_vars

\* C13: a deploy call of a job whose earlier confirmation wait timed out in
\* the same batch submits no new transaction.
C13_NoResubmit ==
    [][\A t \in Triggers :
         (pc[t] = "submit" /\ pc'[t] = "poll") => CurId(t) \notin timedOut[t]]_vars

\* C14: every deploy call that has started comes to an end, whatever the
\* provider does.
C14_DeployTerminates ==
    \A t \in Triggers : Deploying(t) ~> ~Deploying(t)


\* ------------------------------------------------- claims, retryDeployment
EventsOf(kind) == SelectSeq(retryTrace, LAMBDA ev : ev.op = kind)
Rejections == EventsOf("rejected")
Sleeps == EventsOf("sleep")

RECURSIVE Doubled(_, _)
Doubled(d, n) == IF n <= 0 THEN d ELSE 2 * Doubled(d, n - 1)

\* C15: retryDeployment calls deployFn at most maxRetries times; it returns
\* the result of the first attempt that succeeds and makes no attempt after
\* it; when all maxRetries attempts failed, the error it throws carries the
\* message of the last attempt's error.
C15_RetryOutcome ==
    /\ Len(EventsOf("deployFn")) <= retryConfig.maxRetries
    /\ \A i \in DOMAIN retryTrace :
          retryTrace[i].op = "resolved" => i = Len(retryTrace)
    /\ retryPc = "returned" =>
          /\ retryResult.kind = "result"
          /\ retryTrace[Len(retryTrace)].op = "resolved"
          /\ retryResult.value = retryTrace[Len(retryTrace)].value
          /\ Len(Rejections) = Len(EventsOf("deployFn")) - 1
    /\ retryPc = "thrown" =>
          /\ retryResult.kind = "error"
          /\ Len(EventsOf("deployFn")) = retryConfig.maxRetries
          /\ Len(Rejections) = retryConfig.maxRetries
          /\ Rejections # << >> =>
                retryResult.message = Rejections[Len(Rejections)].message

C15_Witness ==
    /\ retryPc = "thrown"
    /\ Len(Rejections) >= 2
    /\ Rejections[1].message # Rejections[Len(Rejections)].message

\* C16: the sleep after failed attempt k < maxRetries lasts retryDelayMs times
\* 2^(k-1), so that the first four sleeps last d, 2d, 4d and 8d; exactly one
\* sleep lies between two consecutive attempts, and none follows the last
\* attempt or a success.
C16_Backoff ==
    LET d == retryConfig.retryDelayMs
        n == Len(retryTrace)
    IN
    /\ \A i \in DOMAIN retryTrace :
          LET ev == retryTrace[i] IN
          /\ (ev.op = "rejected" /\ ev.attempt < retryConfig.maxRetries) =>
                /\ i + 1 <= n
                /\ retryTrace[i + 1] = [op |-> "sleep", ms |-> Doubled(d, ev.attempt - 1)]
          /\ (ev.op = "rejected" /\ ev.attempt >= retryConfig.maxRetries) => i = n
          /\ ev.op = "resolved" => i = n
          /\ ev.op = "sleep" =>
                /\ retryTrace[i - 1].op = "rejected"
                /\ i + 1 <= n => retryTrace[i + 1].op = "deployFn"
          /\ (ev.op = "deployFn" /\ i > 1) => retryTrace[i - 1].op = "sleep"
    /\ \A k \in DOMAIN Sleeps :
          k <= 4 => Sleeps[k].ms = (CASE k = 1 -> d [] k = 2 -> 2 * d
                                      [] k = 3 -> 4 * d [] OTHER -> 8 * d)
    /\ retryPc \in {"returned", "thrown"} =>
          Len(Sleeps) = Len(EventsOf("deployFn")) - 1 \/ EventsOf("deployFn") = << >>

C16_Witness ==
    /\ retryPc = "thrown"
    /\ Len(Sleeps) = 4
    /\ Sleeps[4].ms = 8 * retryConfig.retryDelayMs

\* ---------------------------------------------------- claims, AlertService
Routing ==
    [l \in AlertLevel |-> CASE l = "CRITICAL" -> {"EMAIL", "SLACK", "SMS"}
                            [] l = "WARNING" -> {"EMAIL", "SLACK"}
                            [] OTHER -> {"SLACK"}]

LevelRank == [l \in AlertLevel |-> CASE l = "INFO" -> 1 [] l = "WARNING" -> 2 [] OTHER -> 3]

\* a dispatch at time t lies within the deduplication window now
WithinWindow(t) == t # 0 /\ now - t <= DeduplicationWindow

\* C17: a triggerAlert call is suppressed exactly when an alert of the same
\* source and the same title was dispatched within the deduplication window;
\* once the window has passed it is dispatched again, and no alert of another
\* source or title suppresses it.
C17_Deduplication ==
    [][\A id \in AlertIds :
          triggerAlert(id) =>
             (lastTrigger'.deduped <=>
                 WithinWindow(lastDispatch[<<svcAlerts[id].source, svcAlerts[id].title>>]))]_vars

\* C18: triggerAlert returns false when the alert is deduplicated; otherwise
\* a send is attempted on every channel of the alert's level, and it returns
\* true exactly when every one of these sends succeeded.
C18_TriggerResult ==
    [][\A id \in AlertIds :
          triggerAlert(id) =>
             LET chans == Routing[svcAlerts[id].level] IN
             /\ lastTrigger'.deduped => ~lastTrigger'.returned
             /\ ~lastTrigger'.deduped =>
                   /\ lastTrigger'.attempted = chans
                   /\ lastTrigger'.returned = (\A ch \in chans : notificationConfig[ch])]_vars

C18_Witness ==
    /\ lastTrigger.via = "triggerAlert"
    /\ ~lastTrigger.deduped
    /\ lastTrigger.attempted = NotificationChannel
    /\ ~lastTrigger.returned
    /\ \E ch \in NotificationChannel : notificationConfig[ch]

\* C19: whichever call dispatches an alert, the alert is sent on the channels
\* of its level and on no other: CRITICAL on email, Slack and SMS, WARNING on
\* email and Slack, INFO on Slack.
C19_Routing ==
    [][\A id \in AlertIds :
          (/\ ~lastTrigger'.deduped
           /\ lastTrigger' # lastTrigger \/ lastAlertTime' # lastAlertTime
           /\ triggerAlert(id) \/ \E lv \in AlertLevel : escalateAlert(id, lv))
          => lastTrigger'.attempted = Routing[svcAlerts'[id].level]]_vars

C19_Witness ==
    /\ ~lastTrigger.deduped
    /\ lastTrigger.attempted = {"EMAIL", "SLACK"}
    /\ \E id \in AlertIds : svcAlerts[id].level = "WARNING" /\ svcAlerts[id].status # "none"

\* C20 as stated: escalateAlert to a level that is not strictly higher changes
\* nothing and dispatches nothing; to a strictly higher level it changes the
\* level and dispatches the alert on the channels of the new level.
C20_EscalationDispatches ==
    [][\A id \in AlertIds, lv \in AlertLevel :
          svcAlerts[id].status # "none" =>
             IF LevelRank[lv] > LevelRank[svcAlerts[id].level]
             THEN (svcAlerts' # svcAlerts /\ escalateAlert(id, lv)) =>
                     /\ svcAlerts'[id].level = lv
                     /\ lastTrigger'.via = "escalateAlert"
                     /\ ~lastTrigger'.deduped
                     /\ lastTrigger'.attempted = Routing[lv]
             ELSE UNCHANGED avars \/ ~escalateAlert(id, lv)]_vars

\* C20: escalateAlert to a level that is not strictly higher changes nothing
\* and dispatches nothing; to a strictly higher level it changes the level and
\* triggers the alert again, which dispatches it on the channels of the new
\* level unless its deduplication key was dispatched within the window.
C20_Escalation ==
    [][\A id \in AlertIds, lv \in AlertLevel :
          svcAlerts[id].status # "none" =>
             IF LevelRank[lv] > LevelRank[svcAlerts[id].level]
             THEN (svcAlerts' # svcAlerts /\ escalateAlert(id, lv)) =>
                     /\ svcAlerts'[id].level = lv
                     /\ lastTrigger'.via = "escalateAlert"
                     /\ lastTrigger'.deduped <=>
                           WithinWindow(lastAlertTime[deduplicationKey(svcAlerts[id])])
                     /\ lastTrigger'.attempted =
                           IF lastTrigger'.deduped THEN {} ELSE Routing[lv]
             ELSE UNCHANGED avars \/ ~escalateAlert(id, lv)]_vars

C20_Witness ==
    /\ lastTrigger.via = "escalateAlert"
    /\ ~lastTrigger.deduped
    /\ lastTrigger.attempted = NotificationChannel
    /\ \E id \in AlertIds : svcAlerts[id].level = "CRITICAL"

\* ------------------------------------------------------------ C21 .. C30
\* a job left failed that the failed loop of processQueue would retry
Retryable(j) == IsFailed(j) /\ queue[j].retryCount < queue[j].maxRetries

\* C25: every batch of processQueue that passes the guard and ends without an
\* exception has fetched the failed jobs after the pending ones, also when no
\* job was pending: no such batch ends before that fetch while a failed job
\* with retryCount < maxRetries waits.
C25_FailedAlwaysFetched ==
    [][\A t \in Triggers :
          (/\ service = "DeploymentQueueProcessor"
           /\ InBatch(t)
           /\ pc'[t] = "idle"
           /\ faults' = faults
           /\ \E j \in Jobs : Retryable(j))
          => (pc[t] = "fetchFailed" \/ phase[t] = "failed")]_vars

\* C26: an exception at batch level (a store call of processQueue itself
\* throws) is caught inside processQueue: it raises one Critical alert of the
\* deployment queue that belongs to no job, changes no job, and leaves the
\* invocation idle with the flag released, so that the next firing of the
\* periodic trigger passes the guard.
C26_BatchErrorAlerts ==
    [][\A t \in Triggers :
          (/\ service = "DeploymentQueueProcessor"
           /\ InBatch(t)
           /\ pc'[t] = "idle"
           /\ faults' = faults + 1)
          => /\ alerts' = createAlert(alerts, "Deployment Queue Processing Error",
                                      "CRITICAL", "deployment-queue", NoJob)
             /\ queue' = queue
             /\ ~isProcessing']_vars

\* a batch failed at batch level and a later firing of the trigger passed
\* the guard
C26_Witness ==
    /\ service = "DeploymentQueueProcessor"
    /\ alerts[<<NoJob, "CRITICAL">>] > 0
    /\ faults > 0
    /\ \E t \in Triggers : pc[t] = "fetchPending"

\* the place of a job in the order of creation
Pos(enq, j) == CHOOSE i \in 1..Len(enq) : enq[i] = j

InFetchOrder(enq, its) ==
    \A i, k \in 1..Len(its) : i < k => Pos(enq, its[i].id) < Pos(enq, its[k].id)

\* the limit of the fetch of pending jobs
PendingFetchLimit ==
    IF service = "DeploymentQueueProcessor" THEN batchSize ELSE PendingLimit

C27_RetryOnlyFailed ==
    [][\A t \in Triggers :
          (pc[t] = "rReset" /\ queue' # queue)
          => /\ IsFailed(CurId(t))
             /\ queue' = [queue EXCEPT ![CurId(t)].status = "PENDING",
                                       ![CurId(t)].retryCount = 0,
                                       ![CurId(t)].error = ""]]_vars

\* the row carries a deployment result (deployedAddress, deploymentTx,
\* gasUsed and gasPrice are written by one update)
HasResult(j) == queue[j].deployedAddress # ""

\* C29: a job carries a deployment result only if its status is Completed; a
\* failure of a step that follows the saving of the result leaves no Pending
\* or Failed job with a stored result.
C29_ResultOnlyCompleted ==
    \A j \in Jobs : HasResult(j) => IsCompleted(j)

\* C30: a failure of the audit write never aborts or alters the flow that
\* called logAudit: whether the row was written or the insert threw, the
\* caller goes on as after a return of the call.  processDeploymentItem
\* leaves the job Completed with its result and goes to the next item;
\* handleDeploymentFailure leaves the job Failed with the owner notified;
\* createMarketAndQueue has created the job.
C30_AuditNeverAborts ==
    [][audit' # audit =>
         /\ audit'.eventType = "DEPLOYMENT_SUCCESS" =>
               \E t \in Triggers :
                  /\ pc[t] = "mDeploy"
                  /\ queue' = [queue EXCEPT ![CurId(t)].status = "DEPLOYED",
                                            ![CurId(t)].deployedAddress = "0xC"]
                  /\ alerts' = alerts
                  /\ MNext(t)
         /\ audit'.eventType = "DEPLOYMENT_FAILED" =>
               \E t \in Triggers :
                  /\ pc[t] = "mFail"
                  /\ queue' = [queue EXCEPT ![CurId(t)].status = "FAILED",
                                            ![CurId(t)].error = "DB error"]
                  /\ alerts' = createAlert(alerts, "Deployment Failed", "OWNER",
                                           "market-resolution", CurId(t))
                  /\ MNext(t)
         /\ audit'.eventType = "MARKET_CREATED" =>
               /\ Len(enqueued') = Len(enqueued) + 1
               /\ queue'[enqueued'[Len(enqueued')]].status = "PENDING"
               /\ UNCHANGED <<pc, items, idx, alerts>>]_vars

\* the audit write of a successful deployment failed; the job is Completed
\* with its result and the run has ended
C30_Witness ==
    /\ audit = [eventType |-> "DEPLOYMENT_SUCCESS", written |-> FALSE]
    /\ \E j \in Jobs : IsCompleted(j) /\ HasResult(j)
    /\ \A t \in Triggers : pc[t] = "idle"

\* C28: validation precedes submission: no fee quote is requested and no
\* transaction is submitted for parameters with an empty title, description
\* or name, an end time that is not in the future, a malformed oracle or
\* leader address, a market oracle address that is not on the allow-list, an
\* initial liquidity that is not positive, or a performance fee and a
\* management fee of more than 100% together.
C28_ValidationPrecedesSubmission ==
    \A t \in Triggers :
       pc[t] \in {"estimate", "submit"} =>
          LET job == queue[CurId(t)] IN
          IF job.type = "BinaryMarket"
          THEN validateDeploymentParams(job.params)
          ELSE /\ validateCopyTradingVaultParams(job.params)
               /\ job.params.performanceFee + job.params.managementFee <= 100

\* C21: over createAlert, triggerAlert, acknowledgeAlert, resolveAlert,
\* escalateAlert and evaluateRules the level of a stored alert never
\* decreases in the order Info < Warning < Critical, and it changes only in a
\* call of escalateAlert on that alert.
C21_LevelMonotone ==
    [][\A id \in AlertIds :
          (svcAlerts[id].status # "none" /\ svcAlerts'[id].level # svcAlerts[id].level)
          => /\ svcAlerts'[id].status # "none"
             /\ LevelRank[svcAlerts'[id].level] > LevelRank[svcAlerts[id].level]
             /\ escalateAlert(id, svcAlerts'[id].level)]_vars

\* an alert a rule created at Warning was acknowledged and stands at Critical
C21_Witness ==
    \E id \in AlertIds :
       /\ svcAlerts[id].source = RuleEngine
       /\ svcAlerts[id].title = <<"r1">>
       /\ svcAlerts[id].level = "CRITICAL"
       /\ svcAlerts[id].status = "ACKNOWLEDGED"

\* C22: for every enabled rule whose condition holds of the data,
\* evaluateRules produces one alert and triggers it, so that the alert is
\* dispatched: a dispatch under its deduplication key is on record once
\* evaluateRules has returned.
C22_RulesDispatch ==
    [][\A id \in AlertIds :
          (/\ svcAlerts[id].status = "none"
           /\ svcAlerts'[id].status # "none"
           /\ svcAlerts'[id].source = RuleEngine)
          => lastAlertTime'[deduplicationKey(svcAlerts'[id])] # 0]_vars

\* C23: createAlert is pure construction: the call stores the new alert and
\* nothing else; it sends nothing and leaves the deduplication state and
\* every other alert as they were.
C23_CreateIsPure ==
    [][\A id \in AlertIds :
          (svcAlerts[id].status = "none" /\ svcAlerts'[id].status # "none")
          => /\ UNCHANGED <<lastAlertTime, lastTrigger, lastDispatch, notificationConfig,
                            rules, now>>
             /\ svcAlerts'[id].status = "ACTIVE"
             /\ \A k \in AlertIds :
                   svcAlerts[k].status # "none" => svcAlerts'[k] = svcAlerts[k]]_vars

\* an alert of source "q" and title "x" was dispatched and a second alert
\* of that source and title is stored, Active
C23_Witness ==
    /\ lastAlertTime[deduplicationKey([source |-> <<"q">>, title |-> <<"x">>])] # 0
    /\ ~lastTrigger.deduped
    /\ lastTrigger.via = "triggerAlert"
    /\ svcAlerts[1].source = <<"q">> /\ svcAlerts[1].status = "RESOLVED"
    /\ svcAlerts[2].source = <<"q">> /\ svcAlerts[2].status = "ACTIVE"

\* ------------------------------------------------------------ C31 .. C40
\* C39: the status of an alert only moves forward along Active,
\* Acknowledged, Resolved: once an alert is Resolved, no call of
\* acknowledgeAlert, escalateAlert or triggerAlert makes it Active or
\* Acknowledged again.
C39_StatusForward ==
    [][\A id \in AlertIds :
          svcAlerts[id].status = "RESOLVED" => svcAlerts'[id].status = "RESOLVED"]_vars

\* C36: under a periodic trigger that keeps firing and deploy calls that
\* always return or raise, every job that is Pending or Processing comes to
\* be Completed or Failed; no job stays in Processing forever, also when a
\* status update or the failure handler raises while the job is processed.
C36_JobsSettle ==
    \A j \in Jobs :
       (IsPending(j) \/ IsProcessing(j)) ~> (IsCompleted(j) \/ IsFailed(j))

\* when an alert was last dispatched under a deduplication key, 0 for never
LastDispatchOfKey(k) ==
    LET times == {lastDispatch[st] : st \in {x \in DOMAIN lastDispatch :
                     deduplicationKey([source |-> x[1], title |-> x[2]]) = k}}
    IN CHOOSE m \in times : \A n \in times : n <= m

\* C38: a trigger suppressed by deduplication does not restart the window.
\* The time kept under a deduplication key changes only in a trigger that
\* passes the check, which is then the last dispatch under that key;
\* a trigger is suppressed only while that dispatch lies within the window,
\* so that triggers arriving more often than once a window are dispatched
\* again once the window after the last dispatch has passed.
C38_WindowNotRestarted ==
    [][/\ \A k \in DOMAIN lastAlertTime :
             lastAlertTime'[k] # lastAlertTime[k] =>
                /\ ~lastTrigger'.deduped
                /\ lastAlertTime'[k] = now
                /\ ~WithinWindow(lastAlertTime[k])
                /\ LastDispatchOfKey(k)' = now
       /\ \A id \in AlertIds :
             (/\ svcAlerts[id].status # "none"
              /\ svcAlerts' = svcAlerts
              /\ now' = now
              /\ triggerAlert(id))
             => (lastTrigger'.deduped <=>
                    WithinWindow(LastDispatchOfKey(deduplicationKey(svcAlerts[id]))))]_vars

\* the one alert there is was dispatched when the clock started and again
\* two windows later
C38_Witness ==
    /\ \A id \in AlertIds : id # 1 => svcAlerts[id].status = "none"
    /\ svcAlerts[1].status # "none"
    /\ now = 3 * Tick
    /\ lastAlertTime[deduplicationKey(svcAlerts[1])] = now
    /\ ~lastTrigger.deduped

\* Math.ceil of the rational value * num / den
CeilExact(value, multiplier) ==
    (value * multiplier.num + multiplier.den - 1) \div multiplier.den

Max(a, b) == IF a >= b THEN a ELSE b

\* C32: every FeeQuote estimateGas returns has non-negative fee fields and
\* totalCost = gasLimit * max(gasPrice, maxFeePerGas), also when the legacy
\* gas price exceeds maxFeePerGas.
C32_TotalCost ==
    (gasManager.call.op = "estimateGas" /\ gasManager.call.pc = "returned")
    => LET quote == gasManager.call.quote IN
       /\ quote.gasLimit >= 0
       /\ quote.gasPrice >= 0
       /\ quote.maxFeePerGas >= 0
       /\ quote.maxPriorityFeePerGas >= 0
       /\ quote.totalCost >= 0
       /\ quote.totalCost = quote.gasLimit * Max(quote.gasPrice, quote.maxFeePerGas)

\* C33: when the provider's gas-limit estimation fails, the quote does not
\* fail: its gas limit is the default of 300000 with no limit multiplier
\* applied, and the fees, the gas price and the total cost are computed from
\* the provider's answers as in any other quote.
C33_DefaultGasLimit ==
    [][LET call == gasManager.call
           next == gasManager'.call
           config == gasManager.config
       IN
       /\ (call.pc # "fees" /\ next.pc = "fees" /\ next.asked.gasEstimate = Fails)
          => next.quote.gasLimit = DefaultGasLimit
       /\ (call.pc = "fees" /\ call.asked.gasEstimate = Fails /\ next.pc = "gasPrice")
          => /\ next.quote.gasLimit = DefaultGasLimit
             /\ next.quote.maxFeePerGas =
                   applyMultiplier(next.asked.feeData.maxFeePerGas, config.priceMultiplier)
             /\ next.quote.maxPriorityFeePerGas =
                   applyMultiplier(next.asked.feeData.maxPriorityFeePerGas,
                                   config.priceMultiplier)
             /\ next.quote.totalCost = DefaultGasLimit * next.quote.maxFeePerGas
       /\ (call.pc = "gasPrice" /\ call.asked.gasEstimate = Fails /\ next.pc = "returned")
          => /\ next.quote = [call.quote EXCEPT !.gasPrice = next.quote.gasPrice]
             /\ next.quote.gasPrice =
                   applyMultiplier(next.asked.gasPrice, config.priceMultiplier)]_vars

C33_Witness ==
    /\ gasManager.call.op = "estimateGas"
    /\ gasManager.call.pc = "returned"
    /\ gasManager.call.asked.gasEstimate = Fails
    /\ gasManager.call.quote.gasLimit = DefaultGasLimit
    /\ gasManager.call.quote.totalCost = DefaultGasLimit * gasManager.call.quote.maxFeePerGas
    /\ gasManager.call.quote.maxFeePerGas > 0

\* C35: isValidGasPrice(p) is true exactly when minGasPriceGwei <= p <=
\* maxGasPriceGwei of the configuration the GasManager has at the call, both
\* bounds included, also after updateConfig; with the bounds 1 and 500 the
\* prices 1 and 500 are valid, 0.5 and 501 are not.
C35_InclusiveBounds ==
    [][LET config == gasManager.config
           next == gasManager'.call
       IN
       /\ (next.op = "isValidGasPrice" /\ next # gasManager.call)
          => (next.result <=>
                (config.minGasPriceGwei <= next.arg /\ next.arg <= config.maxGasPriceGwei))
       /\ (/\ config.minGasPriceGwei = HalfGwei(1)
           /\ config.maxGasPriceGwei = HalfGwei(500))
          => /\ isValidGasPrice(config, HalfGwei(1))
             /\ isValidGasPrice(config, HalfGwei(500))
             /\ ~isValidGasPrice(config, 1)
             /\ ~isValidGasPrice(config, HalfGwei(501))]_vars

\* after updateConfig({ maxGasPriceGwei: 4 }) the price 4 is valid
C35_Witness ==
    /\ gasManager.config.maxGasPriceGwei = HalfGwei(4)
    /\ gasManager.call.op = "isValidGasPrice"
    /\ gasManager.call.arg = HalfGwei(4)
    /\ gasManager.call.result

C40_RemovedInEveryCase ==
    [][\A a \in AddressesTried :
          /\ (isAddress(a) /\ removeOracleFromWhitelist(a))
             => \A v \in AddressesTried :
                   toLowerCase(v) = toLowerCase(a) => ~isWhitelisted(oracleConfig'.whitelist, v)
          /\ addOracleToWhitelist(a)
             => added(oracleConfig'.whitelist, a) = oracleConfig'.whitelist]_vars

\* C37: under any interleaving of concurrent createMarketAndQueue calls no
\* two stored markets have the same sourceId, and every stored market whose
\* call has returned has exactly one deployment queue item.
C37_NoDuplicateMarkets ==
    /\ \A i, j \in DOMAIN db.markets :
          i # j => db.markets[i].sourceId # db.markets[j].sourceId
    /\ \A i \in DOMAIN db.markets :
          (\A c \in Callers : db.calls[c].marketId # i)
          => Cardinality({q \in DOMAIN db.contractDeployQueue :
                            db.contractDeployQueue[q].marketId = i}) = 1
====
